---------------------------- MODULE Spec2Model ----------------------------
(***************************************************************************)
(* The stdio process supervisor of src-tauri/src/commands/mcp.rs:          *)
(* MCPProcessManager (the `processes` registry and the `pids` table, each  *)
(* behind its own Mutex), the commands mcp_connect_stdio,                  *)
(* mcp_send_request, mcp_send_notification and mcp_disconnect run by       *)
(* concurrent caller threads, the child processes, and the line channel    *)
(* fed by each child's reader thread.                                      *)
(*                                                                         *)
(* A Worker handle (MCPProcess: child, stdin, stderr, line_rx) is          *)
(* identified by the pid of its child: 0 stands for "no entry".            *)
(* Time is counted in ticks while a caller waits in recv_timeout.          *)
(***************************************************************************)
EXTENDS Naturals, Integers, Sequences, FiniteSets, TLC

\* ------------------------------------------------------------------ bounds
\* Child processes the model lets connect spawn over a run.
MaxSpawn == 2
\* Characters, terminator apart, of the lines a child writes where the text of
\* the lines is the matter.
MaxLineChars == 3
\* Characters of a request text sent to an echo stub.
MaxRequestChars == 3
\* Characters the stdin pipe of an echo stub holds; a write waits for room.
MaxStdin == 4

\* ------------------------------------------------ program constants (scaled)
\* MAX_READ_ITERATIONS (1000 in the source), scaled.
MAX_READ_ITERATIONS == 2
\* READ_LINE_TIMEOUT (60 s in the source), in ticks.
READ_LINE_TIMEOUT == 2
\* Capacity of the reader thread's sync_channel (32 in the source), scaled.
CHANNEL_CAPACITY == 1
\* MAX_LINE_LENGTH (256 * 1024 bytes in the source), scaled.
MAX_LINE_LENGTH == 3
\* The grace window of graceful_kill_process_group (2 s in the source), in ticks.
GRACE_WINDOW == 3
\* The sleep between two polls of it (50 ms in the source), in ticks.
POLL_INTERVAL == 2

\* The caller threads: two commands at a time run concurrently.
Threads == {"t1", "t2"}
NoThread == "none"
Pids == 1..MaxSpawn
WorkerIds == {"w"}

\* validate_command works on the characters of the command.
Commands == { <<"n", "p", "x">>, <<"a", "/", "b">>, <<>> }

\* Text is a sequence of characters: " " stands for the whitespace other than
\* the line terminator, "{" for itself, "x" for every other character.
Chars == {" ", "{", "x"}
Newline == "\n"

\* The texts of at most n characters over the alphabet cs.
TextsUpTo(cs, n) == UNION {[1..k -> cs] : k \in 0..n}

\* What read_line hands to the reader thread (mcp.rs:219-226): the characters
\* of a line and its terminator.
Terminated(text) == text \o <<Newline>>

\* The lines an arbitrary child is taken to write: a JSON object, a banner, an
\* oversize line.
SampleLines ==
    { Terminated(<<"{">>), Terminated(<<"x">>), Terminated(<<"x", "x", "x">>) }

\* Every line of at most MaxLineChars characters.
AllLines == {Terminated(c) : c \in TextsUpTo(Chars, MaxLineChars)}

\* The request of a caller whose child's answer does not depend on it.
SampleRequests == { <<"{">> }

\* Every request text of at most MaxRequestChars characters that begins with
\* '{' and goes on with '{', other characters and line terminators.
AllRequests ==
    {<<"{">> \o r : r \in TextsUpTo({"{", "x", Newline}, MaxRequestChars - 1)}

\* The reader thread's ReadResult (mcp.rs:33-37).
Line(l) == [tag |-> "Line", line |-> l]
Eof == [tag |-> "Eof", line |-> <<>>]
Error == [tag |-> "Error", line |-> <<>>]

VARIABLES
    processes,   \* MCPProcessManager.processes: worker id -> handle (pid), 0 = absent
    pids,        \* MCPProcessManager.pids: worker id -> pid, 0 = absent
    procLock,    \* holder of the processes Mutex, NoThread = free
    pidLock,     \* holder of the pids Mutex, NoThread = free
    os,          \* pid -> "unborn" | "running" | "zombie" | "reaped"
    sig,         \* pid -> signals sent to its process group: "TERM", "KILL"
    chan,        \* pid -> items waiting in the line channel of that child
    nextPid,     \* pid the next spawn gets
    th,          \* caller thread -> its command, position and locals
    timed,       \* whether the run counts the ticks spent in recv_timeout
    descendant,  \* pid -> whether a descendant of the child lives in its process group
    stdin,       \* pid -> characters written to the child's stdin and not yet read by it
    echo,        \* whether the children are echo stubs (what is written to them matters)
    stdout,      \* pid -> lines written to the child's stdout and not yet read by its reader thread
    reader,      \* pid -> the reader thread of that child: its position and the item in its hand
    wrote,       \* pid -> every line the child has written to its stdout, in order
    sent,        \* pid -> every item the reader thread has sent into the line channel, in order
    environ,     \* the supervisor's own environment: variable name -> value
    envArg,      \* the env argument of mcp_connect_stdio: variable name -> value
    childEnv,    \* the environment mcp_connect_stdio has built for the child it spawns
    program,     \* the command name handed to mcp_connect_stdio and check_command_exists
    ran,         \* whether check_command_exists has run a process
    stderrBuf,   \* what a read of the child's stderr has returned
    diagnostic   \* the diagnostic try_read_stderr has made of it

\* The reader thread where it is followed step by step, and the inputs and
\* results of the functions that are checked by themselves.
readerVars == <<stdout, reader, wrote, sent>>
pureVars == <<environ, envArg, childEnv, program, ran, stderrBuf, diagnostic>>

vars == <<processes, pids, procLock, pidLock, os, sig, chan, nextPid, th, timed, descendant, stdin, echo, readerVars, pureVars>>

\* A reader thread is blocked in read_line ("read"), is in tx.send with an item
\* in its hand ("send"), or has left its loop ("done"); "none" before the spawn.
ReaderAt(pc, item) == [pc |-> pc, item |-> item]
NoItem == [tag |-> "none", line |-> <<>>]

\* The reader threads of the children in `live` run, nothing is written yet.
ReaderInit(live) ==
    /\ stdout = [p \in Pids |-> <<>>]
    /\ reader = [p \in Pids |-> ReaderAt(IF p \in live THEN "read" ELSE "none", NoItem)]
    /\ wrote = [p \in Pids |-> <<>>]
    /\ sent = [p \in Pids |-> <<>>]

\* No function is checked by itself: its inputs and results are empty.
NoInputs ==
    /\ environ = <<>>
    /\ envArg = <<>>
    /\ childEnv = <<>>
    /\ program = <<>>
    /\ ran = FALSE
    /\ stderrBuf = <<>>
    /\ diagnostic = [state |-> "none", text |-> <<>>]

\* pending: how many of the items that waited in the line channel when the
\* request of the thread's send_request was written are still in it.
IdleThread ==
    [op |-> "none", pc |-> "idle", wid |-> "w", held |-> 0, res |-> "none",
     iter |-> 0, waited |-> 0, elapsed |-> 0, req |-> <<>>, fresh |-> FALSE,
     text |-> <<>>, diag |-> "none", pending |-> 0]

InitState ==
    /\ processes = [w \in WorkerIds |-> 0]
    /\ pids = [w \in WorkerIds |-> 0]
    /\ procLock = NoThread
    /\ pidLock = NoThread
    /\ os = [p \in Pids |-> "unborn"]
    /\ sig = [p \in Pids |-> {}]
    /\ chan = [p \in Pids |-> <<>>]
    /\ nextPid = 1
    /\ th = [t \in Threads |-> IdleThread]
    /\ descendant = [p \in Pids |-> FALSE]
    /\ stdin = [p \in Pids |-> <<>>]
    /\ ReaderInit({})

\* The waits in recv_timeout are left open: a receive on an empty channel may
\* time out at any moment. The children write what they like, whatever they are
\* sent.
Init == InitState /\ timed = FALSE /\ echo = FALSE /\ NoInputs

\* The state right after a successful mcp_connect_stdio of the one worker.
\* InitTimed: the waits are counted, a receive times out after READ_LINE_TIMEOUT
\* ticks.
Connected ==
    /\ processes = [w \in WorkerIds |-> 1]
    /\ pids = [w \in WorkerIds |-> 1]
    /\ procLock = NoThread
    /\ pidLock = NoThread
    /\ os = [p \in Pids |-> IF p = 1 THEN "running" ELSE "unborn"]
    /\ sig = [p \in Pids |-> {}]
    /\ chan = [p \in Pids |-> <<>>]
    /\ nextPid = 2
    /\ th = [t \in Threads |-> IdleThread]
    /\ descendant = [p \in Pids |-> FALSE]
    /\ stdin = [p \in Pids |-> <<>>]
    /\ ReaderInit({1})

InitTimed == Connected /\ timed = TRUE /\ echo = FALSE /\ NoInputs

\* ------------------------------------------------------------ pure helpers
IsAlphanumeric(c) == c \in {"n", "p", "x", "a", "b"}

\* validate_command as it would be if it let the path separator through.
validate_command_AllowsSeparator(command) ==
    /\ Len(command) > 0
    /\ \A i \in 1..Len(command) :
          IsAlphanumeric(command[i]) \/ command[i] \in {"-", "_", ".", "/"}

\* validate_command: non-empty, every char alphanumeric or one of - _ .
validate_command(command) ==
    /\ Len(command) > 0
    /\ \A i \in 1..Len(command) :
          IsAlphanumeric(command[i]) \/ command[i] \in {"-", "_", "."}

\* A call starts on an idle thread; the locals of the previous call are dropped.
Begin(t, o, w) ==
    [IdleThread EXCEPT !.op = o, !.wid = w]

\* A call returns r: the thread is idle again and keeps the command's name and
\* the kind of its result until its next call. The text of a Response is the
\* `text` the thread holds at the step of its return.
Return(rec, r) == [IdleThread EXCEPT !.op = rec.op, !.res = r]

\* char::is_whitespace, on the model's alphabet.
IsWhitespace(c) == c \in {" ", Newline}

\* str::trim_start, str::trim_end and str::trim.
RECURSIVE TrimStart(_)
TrimStart(s) ==
    IF s # <<>> /\ IsWhitespace(Head(s)) THEN TrimStart(Tail(s)) ELSE s

RECURSIVE TrimEnd(_)
TrimEnd(s) ==
    IF s # <<>> /\ IsWhitespace(s[Len(s)]) THEN TrimEnd(SubSeq(s, 1, Len(s) - 1)) ELSE s

\* Trim as it would be with trim_start in its place.
Trim_StartOnly(s) == TrimStart(s)

Trim(s) == TrimEnd(TrimStart(s))

\* str::starts_with('{')
StartsWithBrace(s) == s # <<>> /\ Head(s) = "{"

\* Dropping an MCPProcess drops line_rx: what waits in the channel is gone.
DropHandle(c, p) == IF p = 0 THEN c ELSE [c EXCEPT ![p] = <<>>]

\* The pids some table or some thread still refers to.
Referenced(procs, pd, thr) ==
    {procs[w] : w \in WorkerIds} \cup {pd[w] : w \in WorkerIds} \cup {thr[t].held : t \in Threads}

\* A process that has ended and that no table and no thread refers to can take no
\* further part in any command: its record is cleared ("gone").
Forget(o, procs, pd, thr) ==
    [p \in Pids |-> IF o[p] \in {"zombie", "reaped"} /\ p \notin Referenced(procs, pd, thr)
                    THEN "gone" ELSE o[p]]

\* The process table and the signal record after a step that leaves them as o
\* and s; the step's processes', pids' and th' come first.
Settle(o, s) ==
    /\ os' = Forget(o, processes', pids', th')
    /\ sig' = [p \in Pids |-> IF os'[p] = "gone" THEN {} ELSE s[p]]

\* ------------------------------------------------------- mcp_connect_stdio
\* ConnectBegin as it would be if the resident process of the id were removed
\* before the command is validated.
ConnectBegin_ValidatesLate(t, w, command) ==
    /\ th[t].pc = "idle"
    /\ nextPid <= MaxSpawn
    /\ procLock = NoThread
    /\ LET old == processes[w] IN
         /\ processes' = [processes EXCEPT ![w] = 0]
         /\ chan' = DropHandle(chan, old)
         /\ UNCHANGED pids
         /\ IF ~validate_command(command)
            THEN /\ th' = [th EXCEPT ![t] = Return(Begin(t, "connect", w), "InvalidCommand")]
                 /\ UNCHANGED procLock
            ELSE /\ th' = [th EXCEPT ![t] = [Begin(t, "connect", w) EXCEPT !.pc = "conn_spawn"]]
                 /\ procLock' = t
         /\ Settle(IF old = 0 THEN os ELSE [os EXCEPT ![old] = "reaped"], sig)
    /\ UNCHANGED <<pidLock, nextPid, timed, descendant, stdin, echo, readerVars, pureVars>>

\* mcp.rs:255-264: validate_command, then lock `processes` and remove the
\* resident process of the id, if any: child.kill() and child.wait(), which
\* returns once the child is reaped. The lock stays held until the return.
ConnectBegin(t, w, command) ==
    /\ th[t].pc = "idle"
    /\ nextPid <= MaxSpawn
    /\ IF ~validate_command(command)
       THEN /\ th' = [th EXCEPT ![t] = Return(Begin(t, "connect", w), "InvalidCommand")]
            /\ UNCHANGED <<processes, pids, procLock, chan>>
            /\ Settle(os, sig)
       ELSE /\ procLock = NoThread
            /\ procLock' = t
            /\ th' = [th EXCEPT ![t] = [Begin(t, "connect", w) EXCEPT !.pc = "conn_spawn"]]
            /\ LET old == processes[w] IN
                 /\ processes' = [processes EXCEPT ![w] = 0]
                 /\ chan' = DropHandle(chan, old)
                 /\ UNCHANGED pids
                 /\ Settle(IF old = 0 THEN os ELSE [os EXCEPT ![old] = "reaped"], sig)
    /\ UNCHANGED <<pidLock, nextPid, timed, descendant, stdin, echo, readerVars, pureVars>>

\* mcp.rs:299-323: cmd.spawn() fails (the `?` returns, releasing the lock) or
\* yields a child with its pipes and reader thread.
ConnectSpawn(t, spawned) ==
    /\ th[t].pc = "conn_spawn"
    /\ IF spawned
       THEN /\ nextPid' = nextPid + 1
            /\ th' = [th EXCEPT ![t].pc = "conn_pids", ![t].held = nextPid]
            /\ UNCHANGED <<processes, pids, procLock>>
            /\ Settle([os EXCEPT ![nextPid] = "running"], sig)
       ELSE /\ procLock' = NoThread
            /\ th' = [th EXCEPT ![t] = Return(@, "SpawnFailed")]
            /\ UNCHANGED <<processes, pids, nextPid>>
            /\ Settle(os, sig)
    /\ UNCHANGED <<pidLock, chan, timed, descendant, stdin, echo, readerVars, pureVars>>

\* mcp.rs:325-328: lock `pids` (with `processes` still held), insert, unlock.
ConnectStorePid(t) ==
    /\ th[t].pc = "conn_pids"
    /\ pidLock = NoThread
    /\ pids' = [pids EXCEPT ![th[t].wid] = th[t].held]
    /\ th' = [th EXCEPT ![t].pc = "conn_insert"]
    /\ UNCHANGED <<processes, procLock, pidLock, chan, nextPid, timed, descendant, stdin, echo, readerVars, pureVars>>
    /\ Settle(os, sig)

\* mcp.rs:330-340: insert the new MCPProcess, return Ok, the guard drops.
ConnectInsert(t) ==
    /\ th[t].pc = "conn_insert"
    /\ processes' = [processes EXCEPT ![th[t].wid] = th[t].held]
    /\ procLock' = NoThread
    /\ th' = [th EXCEPT ![t] = Return(@, "Ok")]
    /\ UNCHANGED <<pids, pidLock, chan, nextPid, timed, descendant, stdin, echo, readerVars, pureVars>>
    /\ Settle(os, sig)

\* ------------------------------------------------------- mcp_send_request
\* writeln!(proc.stdin, ..) reaches the child only while it runs; a child that has
\* exited gives EPIPE, and a running child may have closed its stdin.
WriteOutcomes(p) == IF os[p] = "running" THEN {TRUE, FALSE} ELSE {FALSE}

\* writeln!(proc.stdin, "{}", text) and flush: the text and a line terminator go
\* into the child's stdin pipe (kept for an echo stub, which gives them back).
HasRoom(p, text) == echo => Len(stdin[p]) + Len(text) + 1 <= MaxStdin
Written(p, text) == IF echo THEN [stdin EXCEPT ![p] = @ \o Terminated(text)] ELSE stdin

\* Nothing written to an echo stub p earlier is still on its way back: its stdin
\* pipe and its line channel are empty.
NothingPending(p) == echo /\ stdin[p] = <<>> /\ chan[p] = <<>>

\* SendRequestTakeOut as it would be if the `processes` guard stayed alive across
\* the read: the lock is still held when the read phase starts.
SendRequestTakeOut_HoldsLock(t, w, request, written) ==
    /\ th[t].pc = "idle"
    /\ procLock = NoThread
    /\ IF processes[w] = 0
       THEN /\ th' = [th EXCEPT ![t] = Return(Begin(t, "send_request", w), "WorkerNotFound")]
            /\ UNCHANGED <<processes, procLock, stdin>>
       ELSE /\ written \in WriteOutcomes(processes[w])
            /\ IF ~written
               THEN /\ th' = [th EXCEPT ![t] =
                              Return(Begin(t, "send_request", w), "WorkerWriteFailed")]
                    /\ UNCHANGED <<processes, procLock, stdin>>
               ELSE /\ HasRoom(processes[w], request)
                    /\ stdin' = Written(processes[w], request)
                    /\ th' = [th EXCEPT ![t] =
                              [Begin(t, "send_request", w) EXCEPT
                                  !.pc = "read", !.held = processes[w], !.req = request,
                                  !.fresh = NothingPending(processes[w]),
                                  !.pending = Len(chan[processes[w]])]]
                    /\ processes' = [processes EXCEPT ![w] = 0]
                    /\ procLock' = t
    /\ UNCHANGED <<pids, pidLock, chan, nextPid, timed, descendant, echo, readerVars, pureVars>>
    /\ Settle(os, sig)

\* mcp.rs:360-385 (step 1), one critical section under the `processes` lock:
\* look the worker up, write and flush the request line, take the worker out.
\* Each early return leaves the map as it is, and the guard drops at the end.
SendRequestTakeOut(t, w, request, written) ==
    /\ th[t].pc = "idle"
    /\ procLock = NoThread
    /\ IF processes[w] = 0
       THEN /\ th' = [th EXCEPT ![t] = Return(Begin(t, "send_request", w), "WorkerNotFound")]
            /\ UNCHANGED <<processes, stdin>>
       ELSE /\ written \in WriteOutcomes(processes[w])
            /\ IF ~written
               THEN /\ th' = [th EXCEPT ![t] =
                              Return(Begin(t, "send_request", w), "WorkerWriteFailed")]
                    /\ UNCHANGED <<processes, stdin>>
               ELSE /\ HasRoom(processes[w], request)
                    /\ stdin' = Written(processes[w], request)
                    /\ th' = [th EXCEPT ![t] =
                              [Begin(t, "send_request", w) EXCEPT
                                  !.pc = "read", !.held = processes[w], !.req = request,
                                  !.fresh = NothingPending(processes[w]),
                                  !.pending = Len(chan[processes[w]])]]
                    /\ processes' = [processes EXCEPT ![w] = 0]
    /\ UNCHANGED <<pids, procLock, pidLock, chan, nextPid, timed, descendant, echo, readerVars, pureVars>>
    /\ Settle(os, sig)

\* ReadOutcome as it would be with the size check placed after the skipping of
\* blank and non-JSON lines.
ReadOutcome_SizeCheckedLast(item) ==
    CASE item.tag = "Eof" -> "WorkerTerminated"
      [] item.tag = "Error" -> "ReadError"
      [] item.tag = "Line" /\ ~StartsWithBrace(Trim(item.line)) -> "none"
      [] item.tag = "Line" /\ Len(item.line) > MAX_LINE_LENGTH -> "ResponseTooLarge"
      [] OTHER -> "Response"

\* The result of read_response_channel on a received item (mcp.rs:430-454);
\* "none" when the loop goes on.
ReadOutcome(item) ==
    CASE item.tag = "Eof" -> "WorkerTerminated"
      [] item.tag = "Error" -> "ReadError"
      [] item.tag = "Line" /\ Len(item.line) > MAX_LINE_LENGTH -> "ResponseTooLarge"
      [] item.tag = "Line" /\ StartsWithBrace(Trim(item.line)) -> "Response"
      [] OTHER -> "none"

\* Where the diagnostic of the error comes from that read_response_channel
\* returns on a received item (mcp.rs:444-454). On Eof it is try_read_stderr
\* (mcp.rs:169-177): the sanitized text of what a non-blocking read of the
\* child's stderr returned ("stderr"), or nothing when the read failed, returned
\* no byte or only whitespace ("empty"). On Error it is the text of the I/O error
\* of read_line ("io_error"); stderr is not read.
Diagnostics(item) ==
    CASE item.tag = "Eof" -> {"stderr", "empty"}
      [] item.tag = "Error" -> {"io_error"}
      [] OTHER -> {"none"}

\* AfterRead as it would be if every result put the worker back.
AfterRead_AlwaysPutBack(r) == "putback"

\* Where mcp_send_request goes once read_response_channel has returned
\* (mcp.rs:397-404): put back on Ok, clean up on Err.
AfterRead(r) == IF r = "Response" THEN "putback" ELSE "cleanup"

\* read_response_channel returns r: its loop counter and clock are gone.
LeaveRead(rec, r) ==
    [rec EXCEPT !.res = r, !.pc = AfterRead(r), !.iter = 0, !.waited = 0, !.elapsed = 0,
                !.pending = 0]

\* ReadRecv as it would be if the line were returned as received, not trimmed.
ReadRecv_Untrimmed(t) ==
    /\ th[t].pc = "read"
    /\ th[t].iter < MAX_READ_ITERATIONS
    /\ chan[th[t].held] # <<>>
    /\ LET item == Head(chan[th[t].held])
           r == ReadOutcome(item) IN
         /\ chan' = [chan EXCEPT ![th[t].held] = Tail(@)]
         /\ \E d \in Diagnostics(item) :
               th' = [th EXCEPT ![t] =
                         IF r = "none"
                         THEN [@ EXCEPT !.iter = @ + 1, !.waited = 0,
                                        !.pending = IF @ > 0 THEN @ - 1 ELSE 0]
                         ELSE LeaveRead([@ EXCEPT !.text = IF r = "Response"
                                                          THEN item.line ELSE <<>>,
                                                  !.diag = d], r)]
    /\ UNCHANGED <<processes, pids, procLock, pidLock, os, sig, nextPid, timed, descendant, stdin, echo, readerVars, pureVars>>

\* ReadRecv as it would be without the iteration limit in front of the receive.
ReadRecv_NoLimit(t) ==
    /\ th[t].pc = "read"
    /\ chan[th[t].held] # <<>>
    /\ LET item == Head(chan[th[t].held])
           r == ReadOutcome(item) IN
         /\ chan' = [chan EXCEPT ![th[t].held] = Tail(@)]
         /\ \E d \in Diagnostics(item) :
               th' = [th EXCEPT ![t] =
                         IF r = "none"
                         THEN [@ EXCEPT !.iter = @ + 1, !.waited = 0,
                                        !.pending = IF @ > 0 THEN @ - 1 ELSE 0]
                         ELSE LeaveRead([@ EXCEPT !.text = IF r = "Response"
                                                          THEN Trim(item.line) ELSE <<>>,
                                                  !.diag = d], r)]
    /\ UNCHANGED <<processes, pids, procLock, pidLock, os, sig, nextPid, timed, descendant, stdin, echo, readerVars, pureVars>>

\* read_response_channel, mcp.rs:429-454: recv_timeout delivers a waiting item.
\* A Line longer than MAX_LINE_LENGTH fails, a line that is blank once trimmed
\* or does not start with '{' is skipped, one that starts with '{' is the
\* response, trimmed; Eof and Error fail.
ReadRecv(t) ==
    /\ th[t].pc = "read"
    /\ th[t].iter < MAX_READ_ITERATIONS
    /\ chan[th[t].held] # <<>>
    /\ LET item == Head(chan[th[t].held])
           r == ReadOutcome(item) IN
         /\ chan' = [chan EXCEPT ![th[t].held] = Tail(@)]
         /\ \E d \in Diagnostics(item) :
               th' = [th EXCEPT ![t] =
                         IF r = "none"
                         THEN [@ EXCEPT !.iter = @ + 1, !.waited = 0,
                                        !.pending = IF @ > 0 THEN @ - 1 ELSE 0]
                         ELSE LeaveRead([@ EXCEPT !.text = IF r = "Response"
                                                          THEN Trim(item.line) ELSE <<>>,
                                                  !.diag = d], r)]
    /\ UNCHANGED <<processes, pids, procLock, pidLock, os, sig, nextPid, timed, descendant, stdin, echo, readerVars, pureVars>>

\* mcp.rs:455-457: nothing arrived within READ_LINE_TIMEOUT.
ReadTimeout(t) ==
    /\ th[t].pc = "read"
    /\ th[t].iter < MAX_READ_ITERATIONS
    /\ chan[th[t].held] = <<>>
    /\ timed => th[t].waited = READ_LINE_TIMEOUT
    /\ th' = [th EXCEPT ![t] = LeaveRead(@, "ResponseTimeout")]
    /\ UNCHANGED <<processes, pids, procLock, pidLock, os, sig, chan, nextPid, timed, descendant, stdin, echo, readerVars, pureVars>>

\* mcp.rs:424-427: the loop gives up before another receive.
ReadIterationLimit(t) ==
    /\ th[t].pc = "read"
    /\ th[t].iter >= MAX_READ_ITERATIONS
    /\ th' = [th EXCEPT ![t] = LeaveRead(@, "IterationLimitExceeded")]
    /\ UNCHANGED <<processes, pids, procLock, pidLock, os, sig, chan, nextPid, timed, descendant, stdin, echo, readerVars, pureVars>>

\* SendRequestPutBack as it would be without the insert.
SendRequestPutBack_NoInsert(t) ==
    /\ th[t].pc = "putback"
    /\ procLock = NoThread
    /\ chan' = DropHandle(chan, th[t].held)
    /\ th' = [th EXCEPT ![t] = Return(@, @.res)]
    /\ UNCHANGED <<processes, pids, procLock, pidLock, nextPid, timed, descendant, stdin, echo, readerVars, pureVars>>
    /\ Settle(os, sig)

\* mcp.rs:398-403: on Ok, lock `processes` and insert the handle under the id.
\* HashMap::insert replaces an entry already there, whose MCPProcess is dropped.
SendRequestPutBack(t) ==
    /\ th[t].pc = "putback"
    /\ procLock = NoThread
    /\ processes' = [processes EXCEPT ![th[t].wid] = th[t].held]
    /\ chan' = DropHandle(chan, processes[th[t].wid])
    /\ th' = [th EXCEPT ![t] = Return(@, @.res)]
    /\ UNCHANGED <<pids, procLock, pidLock, nextPid, timed, descendant, stdin, echo, readerVars, pureVars>>
    /\ Settle(os, sig)

\* A non-blocking wait right after SIGKILL: a child that had exited before is
\* reaped; one that ran until the signal may or may not be seen dead yet; one
\* reaped before gives ECHILD.
TryWaitOutcomes(st) ==
    CASE st = "zombie" -> {TRUE}
      [] st = "running" -> {TRUE, FALSE}
      [] OTHER -> {FALSE}

\* The process after SIGKILL and a non-blocking wait that reaps it or not.
KillAndTryWait(st, reaped) ==
    IF st \in {"running", "zombie"} THEN (IF reaped THEN "reaped" ELSE "zombie") ELSE st

\* mcp.rs:404-409: on Err, child.kill(), child.try_wait(), drop(proc).
SendRequestCleanupKill(t, reaped) ==
    /\ th[t].pc = "cleanup"
    /\ reaped \in TryWaitOutcomes(os[th[t].held])
    /\ chan' = DropHandle(chan, th[t].held)
    /\ th' = [th EXCEPT ![t].pc = "cleanup_pids"]
    /\ UNCHANGED <<processes, pids, procLock, pidLock, nextPid, timed, descendant, stdin, echo, readerVars, pureVars>>
    /\ Settle([os EXCEPT ![th[t].held] = KillAndTryWait(@, reaped)], sig)

\* SendRequestCleanupPids as it would be without pids.remove.
SendRequestCleanupPids_KeepsPid(t) ==
    /\ th[t].pc = "cleanup_pids"
    /\ pidLock = NoThread
    /\ th' = [th EXCEPT ![t] = Return(@, @.res)]
    /\ UNCHANGED <<processes, pids, procLock, pidLock, chan, nextPid, timed, descendant, stdin, echo, readerVars, pureVars>>
    /\ Settle(os, sig)

\* mcp.rs:410-416: lock `pids`, remove the id's entry, return the error.
SendRequestCleanupPids(t) ==
    /\ th[t].pc = "cleanup_pids"
    /\ pidLock = NoThread
    /\ pids' = [pids EXCEPT ![th[t].wid] = 0]
    /\ th' = [th EXCEPT ![t] = Return(@, @.res)]
    /\ UNCHANGED <<processes, procLock, pidLock, chan, nextPid, timed, descendant, stdin, echo, readerVars, pureVars>>
    /\ Settle(os, sig)

\* ---------------------------------------------------- mcp_send_notification
\* SendNotification as it would be if a failed write took the worker out of the
\* registry.
SendNotification_DropsOnFailure(t, w, notification, written) ==
    /\ th[t].pc = "idle"
    /\ procLock = NoThread
    /\ IF processes[w] = 0
       THEN /\ th' = [th EXCEPT ![t] =
                      Return(Begin(t, "send_notification", w), "WorkerNotFound")]
            /\ UNCHANGED <<stdin, processes, chan>>
       ELSE /\ written \in WriteOutcomes(processes[w])
            /\ written => HasRoom(processes[w], notification)
            /\ stdin' = IF written THEN Written(processes[w], notification) ELSE stdin
            /\ processes' = IF written THEN processes ELSE [processes EXCEPT ![w] = 0]
            /\ chan' = IF written THEN chan ELSE DropHandle(chan, processes[w])
            /\ th' = [th EXCEPT ![t] = Return(Begin(t, "send_notification", w),
                                              IF written THEN "Ok" ELSE "WorkerWriteFailed")]
    /\ UNCHANGED <<pids, procLock, pidLock, nextPid, timed, descendant, echo, readerVars, pureVars>>
    /\ Settle(os, sig)

\* mcp.rs:477-496: under the `processes` lock, look up, write, flush; the map is
\* not changed.
SendNotification(t, w, notification, written) ==
    /\ th[t].pc = "idle"
    /\ procLock = NoThread
    /\ IF processes[w] = 0
       THEN /\ th' = [th EXCEPT ![t] =
                      Return(Begin(t, "send_notification", w), "WorkerNotFound")]
            /\ UNCHANGED stdin
       ELSE /\ written \in WriteOutcomes(processes[w])
            /\ written => HasRoom(processes[w], notification)
            /\ stdin' = IF written THEN Written(processes[w], notification) ELSE stdin
            /\ th' = [th EXCEPT ![t] = Return(Begin(t, "send_notification", w),
                                              IF written THEN "Ok" ELSE "WorkerWriteFailed")]
    /\ UNCHANGED <<processes, pids, procLock, pidLock, chan, nextPid, timed, descendant, echo, readerVars, pureVars>>
    /\ Settle(os, sig)

\* ----------------------------------------------------------- mcp_disconnect
\* mcp.rs:509-510 and 123-130: lock `pids`, remove the id's pid; if there was one,
\* graceful_kill_process_group starts with SIGTERM to the group, the `pids` guard
\* still alive.
DisconnectTakePid(t, w) ==
    /\ th[t].pc = "idle"
    /\ pidLock = NoThread
    /\ IF pids[w] = 0
       THEN /\ th' = [th EXCEPT ![t] = [Begin(t, "disconnect", w) EXCEPT !.pc = "disc_registry"]]
            /\ UNCHANGED <<pids, pidLock>>
            /\ UNCHANGED processes
            /\ Settle(os, sig)
       ELSE /\ pids' = [pids EXCEPT ![w] = 0]
            /\ pidLock' = t
            /\ th' = [th EXCEPT ![t] = [Begin(t, "disconnect", w) EXCEPT !.pc = "disc_poll",
                                                                        !.held = pids[w]]]
            /\ UNCHANGED processes
            /\ Settle(os, [sig EXCEPT ![pids[w]] = @ \cup {"TERM"}])
    /\ UNCHANGED <<procLock, chan, nextPid, timed, descendant, stdin, echo, readerVars, pureVars>>

\* mcp.rs:135-143: a poll (waitpid WNOHANG) finds the leader exited and reaps it;
\* graceful_kill_process_group returns and the `pids` guard drops.
DisconnectPollReaped(t) ==
    /\ th[t].pc = "disc_poll"
    /\ os[th[t].held] = "zombie"
    /\ pidLock' = NoThread
    /\ th' = [th EXCEPT ![t].pc = "disc_registry", ![t].elapsed = 0]
    /\ UNCHANGED <<processes, pids, procLock, chan, nextPid, timed, descendant, stdin, echo, readerVars, pureVars>>
    /\ Settle([os EXCEPT ![th[t].held] = "reaped"], sig)

\* mcp.rs:137-147: a poll finds the leader not exited and the grace window not
\* over: sleep for POLL_INTERVAL.
DisconnectPollSleep(t) ==
    /\ timed
    /\ th[t].pc = "disc_poll"
    /\ os[th[t].held] # "zombie"
    /\ th[t].elapsed < GRACE_WINDOW
    /\ th' = [th EXCEPT ![t].pc = "disc_sleep", ![t].waited = 0]
    /\ UNCHANGED <<processes, pids, procLock, pidLock, os, sig, chan, nextPid, timed, descendant, stdin, echo, readerVars, pureVars>>

\* mcp.rs:147 and 135-140: the sleep is over, the next poll.
DisconnectPollAgain(t) ==
    /\ th[t].pc = "disc_sleep"
    /\ th[t].waited = POLL_INTERVAL
    /\ th' = [th EXCEPT ![t].pc = "disc_poll", ![t].waited = 0]
    /\ UNCHANGED <<processes, pids, procLock, pidLock, os, sig, chan, nextPid, timed, descendant, stdin, echo, readerVars, pureVars>>

\* DisconnectForceKill as it would be if the `pids` guard outlived the kill
\* sequence: the PID Table lock is still held when the registry lock is taken.
DisconnectForceKill_KeepsPidsGuard(t, reaped) ==
    /\ th[t].pc = "disc_poll"
    /\ os[th[t].held] # "zombie"
    /\ timed => th[t].elapsed >= GRACE_WINDOW
    /\ reaped \in TryWaitOutcomes(os[th[t].held])
    /\ th' = [th EXCEPT ![t].pc = "disc_registry", ![t].elapsed = 0]
    /\ descendant' = [descendant EXCEPT ![th[t].held] = FALSE]
    /\ UNCHANGED <<processes, pids, procLock, pidLock, chan, nextPid, timed, stdin, echo, readerVars, pureVars>>
    /\ Settle([os EXCEPT ![th[t].held] = KillAndTryWait(@, reaped)],
              [sig EXCEPT ![th[t].held] = @ \cup {"KILL"}])

\* DisconnectForceKill as it would be without the check of the time elapsed.
DisconnectForceKill_Impatient(t, reaped) ==
    /\ th[t].pc = "disc_poll"
    /\ os[th[t].held] # "zombie"
    /\ reaped \in TryWaitOutcomes(os[th[t].held])
    /\ pidLock' = NoThread
    /\ th' = [th EXCEPT ![t].pc = "disc_registry", ![t].elapsed = 0]
    /\ descendant' = [descendant EXCEPT ![th[t].held] = FALSE]
    /\ UNCHANGED <<processes, pids, procLock, chan, nextPid, timed, stdin, echo, readerVars, pureVars>>
    /\ Settle([os EXCEPT ![th[t].held] = KillAndTryWait(@, reaped)],
              [sig EXCEPT ![th[t].held] = @ \cup {"KILL"}])

\* mcp.rs:144-160: a poll finds the leader not exited and the grace window over
\* (where the time is not counted: at any poll): SIGKILL to the group, one more
\* waitpid WNOHANG, return.
DisconnectForceKill(t, reaped) ==
    /\ th[t].pc = "disc_poll"
    /\ os[th[t].held] # "zombie"
    /\ timed => th[t].elapsed >= GRACE_WINDOW
    /\ reaped \in TryWaitOutcomes(os[th[t].held])
    /\ pidLock' = NoThread
    /\ th' = [th EXCEPT ![t].pc = "disc_registry", ![t].elapsed = 0]
    /\ descendant' = [descendant EXCEPT ![th[t].held] = FALSE]
    /\ UNCHANGED <<processes, pids, procLock, chan, nextPid, timed, stdin, echo, readerVars, pureVars>>
    /\ Settle([os EXCEPT ![th[t].held] = KillAndTryWait(@, reaped)],
              [sig EXCEPT ![th[t].held] = @ \cup {"KILL"}])

\* DisconnectRegistry as it would be if a missing entry were reported.
DisconnectRegistry_ReportsMissing(t) ==
    /\ th[t].pc = "disc_registry"
    /\ procLock = NoThread
    /\ processes' = [processes EXCEPT ![th[t].wid] = 0]
    /\ chan' = DropHandle(chan, processes[th[t].wid])
    /\ th' = [th EXCEPT ![t] = Return(@, IF processes[th[t].wid] = 0
                                         THEN "WorkerNotFound" ELSE "Ok")]
    /\ UNCHANGED <<pids, procLock, pidLock, nextPid, timed, descendant, stdin, echo, readerVars, pureVars>>
    /\ Settle(os, sig)

\* mcp.rs:515-524: lock `processes`, remove and drop the entry if there is one.
DisconnectRegistry(t) ==
    /\ th[t].pc = "disc_registry"
    /\ procLock = NoThread
    /\ processes' = [processes EXCEPT ![th[t].wid] = 0]
    /\ chan' = DropHandle(chan, processes[th[t].wid])
    /\ th' = [th EXCEPT ![t] = Return(@, "Ok")]
    /\ UNCHANGED <<pids, procLock, pidLock, nextPid, timed, descendant, stdin, echo, readerVars, pureVars>>
    /\ Settle(os, sig)

\* ---------------------------------------------- children and reader threads
\* The receiving end of p's channel is alive: p's handle is resident or checked
\* out by a request that has not dropped it.
HasReceiver(p) ==
    \/ \E w \in WorkerIds : processes[w] = p
    \/ \E t \in Threads : th[t].held = p /\ th[t].pc \in {"read", "putback", "cleanup"}

\* The reader thread has sent Eof or Error and has ended (mcp.rs:221-233).
ReaderEnded(p) == \E i \in 1..Len(chan[p]) : chan[p][i].tag \in {"Eof", "Error"}

\* spawn_reader_thread, mcp.rs:220-233: the child writes a line and the reader
\* thread sends it as Line (or Error when read_line fails on it); send blocks
\* while the channel is full.
ChildWrite(p, item) ==
    /\ os[p] = "running"
    /\ HasReceiver(p)
    /\ ~ReaderEnded(p)
    /\ Len(chan[p]) < CHANNEL_CAPACITY
    /\ chan' = [chan EXCEPT ![p] = Append(@, item)]
    /\ UNCHANGED <<processes, pids, procLock, pidLock, os, sig, nextPid, th, timed, descendant, stdin, echo, readerVars, pureVars>>

\* The child exits by itself (also in reaction to SIGTERM).
ChildExit(p) ==
    /\ os[p] = "running"
    /\ UNCHANGED <<processes, pids, procLock, pidLock, chan, nextPid, th, timed, descendant, stdin, echo, readerVars, pureVars>>
    /\ Settle([os EXCEPT ![p] = "zombie"], sig)

\* The child forks a descendant, which stays in the child's process group
\* (mcp.rs:275-280: the child is spawned with process_group(0)).
ChildFork(p) ==
    /\ os[p] = "running"
    /\ ~descendant[p]
    /\ descendant' = [descendant EXCEPT ![p] = TRUE]
    /\ UNCHANGED <<processes, pids, procLock, pidLock, os, sig, chan, nextPid, th, timed, stdin, echo, readerVars, pureVars>>

\* The descendant exits by itself (also in reaction to SIGTERM, or because its
\* parent ended it).
DescendantExit(p) ==
    /\ descendant[p]
    /\ descendant' = [descendant EXCEPT ![p] = FALSE]
    /\ UNCHANGED <<processes, pids, procLock, pidLock, os, sig, chan, nextPid, th, timed, stdin, echo, readerVars, pureVars>>

\* The characters of s up to and including its first line terminator.
RECURSIVE FirstLine(_)
FirstLine(s) ==
    IF s = <<>> THEN <<>>
    ELSE IF Head(s) = Newline THEN <<Newline>>
    ELSE <<Head(s)>> \o FirstLine(Tail(s))

\* An echo stub reads one line from its stdin and writes it to its stdout as it
\* is; the reader thread sends it as a Line (mcp.rs:219-229).
ChildEcho(p) ==
    /\ echo
    /\ os[p] = "running"
    /\ stdin[p] # <<>>
    /\ HasReceiver(p)
    /\ ~ReaderEnded(p)
    /\ Len(chan[p]) < CHANNEL_CAPACITY
    /\ chan' = [chan EXCEPT ![p] = Append(@, Line(FirstLine(stdin[p])))]
    /\ stdin' = [stdin EXCEPT ![p] = SubSeq(@, Len(FirstLine(@)) + 1, Len(@))]
    /\ UNCHANGED <<processes, pids, procLock, pidLock, os, sig, nextPid, th, timed,
                   descendant, echo, readerVars, pureVars>>

\* mcp.rs:221-224: read_line returns Ok(0) once the child and every descendant
\* that has its stdout are gone; Eof is sent.
ReaderEof(p) ==
    /\ os[p] \in {"zombie", "reaped"}
    /\ ~descendant[p]
    /\ HasReceiver(p)
    /\ ~ReaderEnded(p)
    /\ Len(chan[p]) < CHANNEL_CAPACITY
    /\ chan' = [chan EXCEPT ![p] = Append(@, Eof)]
    /\ UNCHANGED <<processes, pids, procLock, pidLock, os, sig, nextPid, th, timed, descendant, stdin, echo, readerVars, pureVars>>

\* Time passes for the callers blocked in recv_timeout and for those asleep
\* between two polls of graceful_kill_process_group. It cannot pass a caller's
\* deadline, nor an item that is ready to be received, nor the end of a sleep,
\* nor a poll, which takes no time.
Reading(t) == th[t].pc = "read"
Sleeping(t) == th[t].pc = "disc_sleep"

Tick ==
    /\ timed
    /\ \E t \in Threads : Reading(t) \/ Sleeping(t)
    /\ \A t \in Threads : Reading(t) =>
          /\ th[t].iter < MAX_READ_ITERATIONS
          /\ chan[th[t].held] = <<>>
          /\ th[t].waited < READ_LINE_TIMEOUT
    /\ \A t \in Threads : Sleeping(t) => th[t].waited < POLL_INTERVAL
    /\ \A t \in Threads : th[t].pc # "disc_poll"
    /\ th' = [t \in Threads |->
                IF Reading(t) \/ Sleeping(t)
                THEN [th[t] EXCEPT !.waited = @ + 1, !.elapsed = @ + 1]
                ELSE th[t]]
    /\ UNCHANGED <<processes, pids, procLock, pidLock, os, sig, chan, nextPid, timed, descendant, stdin, echo, readerVars, pureVars>>

\* ------------------------------------------------------------ specification
Next ==
    \/ \E t \in Threads, w \in WorkerIds, c \in Commands : ConnectBegin(t, w, c)
    \/ \E t \in Threads, b \in BOOLEAN : ConnectSpawn(t, b)
    \/ \E t \in Threads : ConnectStorePid(t)
    \/ \E t \in Threads : ConnectInsert(t)
    \/ \E t \in Threads, w \in WorkerIds, r \in SampleRequests, b \in BOOLEAN :
          SendRequestTakeOut(t, w, r, b)
    \/ \E t \in Threads : ReadRecv(t)
    \/ \E t \in Threads : ReadTimeout(t)
    \/ \E t \in Threads : ReadIterationLimit(t)
    \/ \E t \in Threads : SendRequestPutBack(t)
    \/ \E t \in Threads, b \in BOOLEAN : SendRequestCleanupKill(t, b)
    \/ \E t \in Threads : SendRequestCleanupPids(t)
    \/ \E t \in Threads, w \in WorkerIds, r \in SampleRequests, b \in BOOLEAN :
          SendNotification(t, w, r, b)
    \/ \E t \in Threads, w \in WorkerIds : DisconnectTakePid(t, w)
    \/ \E t \in Threads : DisconnectPollReaped(t)
    \/ \E t \in Threads, b \in BOOLEAN : DisconnectForceKill(t, b)
    \/ \E t \in Threads : DisconnectRegistry(t)
    \/ \E p \in Pids, l \in SampleLines : ChildWrite(p, Line(l))
    \/ \E p \in Pids : ChildWrite(p, Error)
    \/ \E p \in Pids : ChildExit(p)
    \/ \E p \in Pids : ReaderEof(p)

Spec == Init /\ [][Next]_vars

\* The steps by which caller thread t goes on with the command it is in.
Progress(t) ==
    \/ \E b \in BOOLEAN : ConnectSpawn(t, b)
    \/ ConnectStorePid(t)
    \/ ConnectInsert(t)
    \/ ReadRecv(t)
    \/ ReadTimeout(t)
    \/ ReadIterationLimit(t)
    \/ SendRequestPutBack(t)
    \/ \E b \in BOOLEAN : SendRequestCleanupKill(t, b)
    \/ SendRequestCleanupPids(t)
    \/ DisconnectPollReaped(t)
    \/ \E b \in BOOLEAN : DisconnectForceKill(t, b)
    \/ DisconnectRegistry(t)

\* Fair scheduling: a caller thread that can go on runs, and a thread waiting for
\* a Mutex gets it when it is released again and again.
SpecLive == Init /\ [][Next]_vars /\ \A t \in Threads : SF_vars(Progress(t))

\* The commands against a connected worker, its child and reader thread, and time.
NextTimed ==
    \/ \E t \in Threads, w \in WorkerIds, r \in SampleRequests, b \in BOOLEAN :
          SendRequestTakeOut(t, w, r, b)
    \/ \E t \in Threads : ReadRecv(t)
    \/ \E t \in Threads : ReadTimeout(t)
    \/ \E t \in Threads : ReadIterationLimit(t)
    \/ \E t \in Threads : SendRequestPutBack(t)
    \/ \E t \in Threads, b \in BOOLEAN : SendRequestCleanupKill(t, b)
    \/ \E t \in Threads : SendRequestCleanupPids(t)
    \/ \E t \in Threads, w \in WorkerIds, r \in SampleRequests, b \in BOOLEAN :
          SendNotification(t, w, r, b)
    \/ \E t \in Threads, w \in WorkerIds : DisconnectTakePid(t, w)
    \/ \E t \in Threads : DisconnectPollReaped(t)
    \/ \E t \in Threads : DisconnectPollSleep(t)
    \/ \E t \in Threads : DisconnectPollAgain(t)
    \/ \E t \in Threads, b \in BOOLEAN : DisconnectForceKill(t, b)
    \/ \E t \in Threads : DisconnectRegistry(t)
    \/ \E p \in Pids, l \in SampleLines : ChildWrite(p, Line(l))
    \/ \E p \in Pids : ChildWrite(p, Error)
    \/ \E p \in Pids : ChildExit(p)
    \/ \E p \in Pids : ReaderEof(p)
    \/ \E p \in Pids : ChildFork(p)
    \/ \E p \in Pids : DescendantExit(p)
    \/ Tick

SpecTimed == InitTimed /\ [][NextTimed]_vars

\* mcp_send_request against a connected worker whose child writes any lines.
InitLines == Connected /\ timed = FALSE /\ echo = FALSE /\ NoInputs

NextLines ==
    \/ \E t \in Threads, w \in WorkerIds, r \in SampleRequests, b \in BOOLEAN :
          SendRequestTakeOut(t, w, r, b)
    \/ \E t \in Threads : ReadRecv(t)
    \/ \E t \in Threads : ReadTimeout(t)
    \/ \E t \in Threads : ReadIterationLimit(t)
    \/ \E t \in Threads : SendRequestPutBack(t)
    \/ \E t \in Threads, b \in BOOLEAN : SendRequestCleanupKill(t, b)
    \/ \E t \in Threads : SendRequestCleanupPids(t)
    \/ \E p \in Pids, l \in AllLines : ChildWrite(p, Line(l))
    \/ \E p \in Pids : ChildWrite(p, Error)
    \/ \E p \in Pids : ChildExit(p)
    \/ \E p \in Pids : ReaderEof(p)

SpecLines == InitLines /\ [][NextLines]_vars

\* mcp_send_request and mcp_send_notification against a connected worker whose
\* child is an echo stub.
InitEcho == Connected /\ timed = FALSE /\ echo = TRUE /\ NoInputs

NextEcho ==
    \/ \E t \in Threads, w \in WorkerIds, r \in AllRequests, b \in BOOLEAN :
          SendRequestTakeOut(t, w, r, b)
    \/ \E t \in Threads : ReadRecv(t)
    \/ \E t \in Threads : ReadTimeout(t)
    \/ \E t \in Threads : ReadIterationLimit(t)
    \/ \E t \in Threads : SendRequestPutBack(t)
    \/ \E t \in Threads, b \in BOOLEAN : SendRequestCleanupKill(t, b)
    \/ \E t \in Threads : SendRequestCleanupPids(t)
    \/ \E t \in Threads, w \in WorkerIds, r \in SampleRequests, b \in BOOLEAN :
          SendNotification(t, w, r, b)
    \/ \E p \in Pids : ChildEcho(p)
    \/ \E p \in Pids : ChildExit(p)
    \/ \E p \in Pids : ReaderEof(p)

SpecEcho == InitEcho /\ [][NextEcho]_vars

\* ------------------------------------------------- the child's environment
\* BLOCKED_ENV_PREFIXES (mcp.rs:18-30), character by character.
BLOCKED_ENV_PREFIXES ==
    { <<"L", "D", "_", "P", "R", "E", "L", "O", "A", "D">>,
      <<"L", "D", "_", "L", "I", "B", "R", "A", "R", "Y", "_", "P", "A", "T", "H">>,
      <<"D", "Y", "L", "D", "_", "I", "N", "S", "E", "R", "T", "_", "L", "I", "B", "R", "A", "R", "I", "E", "S">>,
      <<"D", "Y", "L", "D", "_", "L", "I", "B", "R", "A", "R", "Y", "_", "P", "A", "T", "H">>,
      <<"D", "Y", "L", "D", "_", "F", "R", "A", "M", "E", "W", "O", "R", "K", "_", "P", "A", "T", "H">>,
      <<"n", "p", "m", "_", "c", "o", "n", "f", "i", "g", "_">>,
      <<"n", "p", "m", "_", "l", "i", "f", "e", "c", "y", "c", "l", "e", "_">>,
      <<"n", "p", "m", "_", "p", "a", "c", "k", "a", "g", "e", "_">>,
      <<"N", "P", "M", "_">>,
      <<"P", "N", "P", "M", "_">> }

\* The variable names of the model: one under each blocked prefix, and
\* names that are safe: plain ones, the beginning of a blocked prefix, a blocked
\* prefix after another character, a blocked prefix short of its last character.
EnvNames ==
    { <<"L", "D", "_", "P", "R", "E", "L", "O", "A", "D">>,
      <<"L", "D", "_", "L", "I", "B", "R", "A", "R", "Y", "_", "P", "A", "T", "H">>,
      <<"D", "Y", "L", "D", "_", "I", "N", "S", "E", "R", "T", "_", "L", "I", "B", "R", "A", "R", "I", "E", "S">>,
      <<"D", "Y", "L", "D", "_", "L", "I", "B", "R", "A", "R", "Y", "_", "P", "A", "T", "H">>,
      <<"D", "Y", "L", "D", "_", "F", "R", "A", "M", "E", "W", "O", "R", "K", "_", "P", "A", "T", "H">>,
      <<"n", "p", "m", "_", "c", "o", "n", "f", "i", "g", "_", "u", "s", "e", "r", "c", "o", "n", "f", "i", "g">>,
      <<"n", "p", "m", "_", "l", "i", "f", "e", "c", "y", "c", "l", "e", "_", "e", "v", "e", "n", "t">>,
      <<"n", "p", "m", "_", "p", "a", "c", "k", "a", "g", "e", "_", "n", "a", "m", "e">>,
      <<"N", "P", "M", "_", "T", "O", "K", "E", "N">>,
      <<"P", "N", "P", "M", "_", "H", "O", "M", "E">>,
      <<"P", "A", "T", "H">>,
      <<"L", "D", "_", "P", "R", "E">>,
      <<"X", "L", "D", "_", "P", "R", "E", "L", "O", "A", "D">>,
      <<"n", "p", "m", "_", "p", "a", "c", "k", "a", "g", "e">> }

\* The variable mcp_connect_stdio sets by itself (mcp.rs:297) and its value.
NpmUserconfig == <<"n", "p", "m", "_", "c", "o", "n", "f", "i", "g", "_", "u", "s", "e", "r", "c", "o", "n", "f", "i", "g">>
DevNull == "/dev/null"

\* Variables a parent environment or an env argument holds at most.
MaxEnvVars == 2

\* The environments of the model: at most MaxEnvVars of the names, each with the
\* one value v.
Environments(v) ==
    UNION { [names -> {v}] : names \in {ns \in SUBSET EnvNames : Cardinality(ns) <= MaxEnvVars} }

\* str::starts_with
StartsWith(key, prefix) ==
    Len(prefix) <= Len(key) /\ SubSeq(key, 1, Len(prefix)) = prefix

\* is_safe_env_var as it would be if it compared whole names to the prefixes.
is_safe_env_var_WholeName(key) == key \notin BLOCKED_ENV_PREFIXES

\* is_safe_env_var (mcp.rs:90-94)
is_safe_env_var(key) == ~\E prefix \in BLOCKED_ENV_PREFIXES : StartsWith(key, prefix)

\* cmd.env(key, value) for each safe variable of vars_ on top of what cmd holds
\* (mcp.rs:284-293): a later value of a name replaces an earlier one.
SetSafe(cmdEnv, vars_) ==
    [key \in DOMAIN cmdEnv \cup {k \in DOMAIN vars_ : is_safe_env_var(k)} |->
        IF key \in DOMAIN vars_ /\ is_safe_env_var(key) THEN vars_[key] ELSE cmdEnv[key]]

\* cmd.env(key, value), mcp.rs:297
SetVar(cmdEnv, key, value) ==
    [k \in DOMAIN cmdEnv \cup {key} |-> IF k = key THEN value ELSE cmdEnv[k]]

\* mcp.rs:283-297: env_clear, the safe variables of the supervisor's environment,
\* the safe variables of the env argument over them, npm_config_userconfig last.
ChildEnvironment(parent, env) ==
    SetVar(SetSafe(SetSafe(<<>>, parent), env), NpmUserconfig, DevNull)

\* mcp_connect_stdio builds the environment of the child from its env argument.
BuildEnvironment ==
    /\ childEnv = <<>>
    /\ childEnv' = ChildEnvironment(environ, envArg)
    /\ UNCHANGED <<processes, pids, procLock, pidLock, os, sig, chan, nextPid, th, timed,
                   descendant, stdin, echo, readerVars, environ, envArg, program, ran,
                   stderrBuf, diagnostic>>

\* The building of the child's environment under every parent environment and
\* every env argument of the model.
InitEnv ==
    /\ InitState /\ timed = FALSE /\ echo = FALSE
    /\ environ \in Environments("host")
    /\ envArg \in Environments("given")
    /\ childEnv = <<>>
    /\ program = <<>>
    /\ ran = FALSE
    /\ stderrBuf = <<>>
    /\ diagnostic = [state |-> "none", text |-> <<>>]

NextEnv == BuildEnvironment

SpecEnv == InitEnv /\ [][NextEnv]_vars

\* ------------------------------------------------------ the command validator
\* Characters of a command name where every name is tried.
MaxCommandChars == 2

\* The characters of those names: a letter, the three other characters of a
\* simple name, a path separator, whitespace, a shell metacharacter.
CommandChars == {"a", "-", "_", ".", "/", " ", ";"}
AllCommands == TextsUpTo(CommandChars, MaxCommandChars)

\* check_command_exists, mcp.rs:529-555: validate_command, then run the command
\* with --version to its end and return what it wrote; `found` is whether the
\* operating system could start it.
CheckCommandExists(t, found) ==
    /\ th[t].pc = "idle"
    /\ IF ~validate_command(program)
       THEN /\ th' = [th EXCEPT ![t] =
                      Return(Begin(t, "check_command_exists", "w"), "InvalidCommand")]
            /\ UNCHANGED ran
       ELSE /\ th' = [th EXCEPT ![t] =
                      Return(Begin(t, "check_command_exists", "w"),
                             IF found THEN "Ok" ELSE "CommandNotFound")]
            /\ ran' = (ran \/ found)
    /\ UNCHANGED <<processes, pids, procLock, pidLock, chan, nextPid, timed, descendant,
                   stdin, echo, readerVars, environ, envArg, childEnv, program, stderrBuf,
                   diagnostic>>
    /\ Settle(os, sig)

\* mcp_connect_stdio and check_command_exists with every command name of the
\* model.
InitCommand ==
    /\ InitState /\ timed = FALSE /\ echo = FALSE
    /\ program \in AllCommands
    /\ environ = <<>>
    /\ envArg = <<>>
    /\ childEnv = <<>>
    /\ ran = FALSE
    /\ stderrBuf = <<>>
    /\ diagnostic = [state |-> "none", text |-> <<>>]

NextCommand ==
    \/ \E t \in Threads, w \in WorkerIds : ConnectBegin(t, w, program)
    \/ \E t \in Threads, b \in BOOLEAN : ConnectSpawn(t, b)
    \/ \E t \in Threads : ConnectStorePid(t)
    \/ \E t \in Threads : ConnectInsert(t)
    \/ \E t \in Threads, b \in BOOLEAN : CheckCommandExists(t, b)

SpecCommand == InitCommand /\ [][NextCommand]_vars

\* --------------------------------------------- the reader thread step by step
\* Lines a child writes to its stdout over its life.
MaxOutput == 3

\* The child writes a line to its stdout pipe.
ChildOutput(p, l) ==
    /\ os[p] = "running"
    /\ Len(wrote[p]) < MaxOutput
    /\ stdout' = [stdout EXCEPT ![p] = Append(@, l)]
    /\ wrote' = [wrote EXCEPT ![p] = Append(@, l)]
    /\ UNCHANGED <<processes, pids, procLock, pidLock, os, sig, chan, nextPid, th, timed,
                   descendant, stdin, echo, reader, sent, pureVars>>

\* mcp.rs:219-220 and 225-226, 230-231: read_line returns the next line of the
\* pipe (ok), or fails on it, as it does on bytes that are not UTF-8; the thread
\* goes on to send Line(line) or Error.
ReaderRead(p, ok) ==
    /\ reader[p].pc = "read"
    /\ stdout[p] # <<>>
    /\ reader' = [reader EXCEPT ![p] =
                     ReaderAt("send", IF ok THEN Line(Head(stdout[p])) ELSE Error)]
    /\ stdout' = [stdout EXCEPT ![p] = Tail(@)]
    /\ UNCHANGED <<processes, pids, procLock, pidLock, os, sig, chan, nextPid, th, timed,
                   descendant, stdin, echo, wrote, sent, pureVars>>

\* mcp.rs:220-222: read_line returns Ok(0): the pipe is empty and nobody has its
\* writing end any more, neither the child nor a descendant that inherited it.
ReaderReadEof(p) ==
    /\ reader[p].pc = "read"
    /\ stdout[p] = <<>>
    /\ os[p] \in {"zombie", "reaped", "gone"}
    /\ ~descendant[p]
    /\ reader' = [reader EXCEPT ![p] = ReaderAt("send", Eof)]
    /\ UNCHANGED <<processes, pids, procLock, pidLock, os, sig, chan, nextPid, th, timed,
                   descendant, stdin, echo, stdout, wrote, sent, pureVars>>

\* ReaderSend as it would be if the result of sending a Line were ignored.
ReaderSend_IgnoresFailure(p) ==
    /\ reader[p].pc = "send"
    /\ IF ~HasReceiver(p)
       THEN /\ reader' = [reader EXCEPT ![p] =
                             ReaderAt(IF reader[p].item.tag = "Line" THEN "read" ELSE "done",
                                      NoItem)]
            /\ UNCHANGED <<chan, sent>>
       ELSE /\ Len(chan[p]) < CHANNEL_CAPACITY
            /\ chan' = [chan EXCEPT ![p] = Append(@, reader[p].item)]
            /\ sent' = [sent EXCEPT ![p] = Append(@, reader[p].item)]
            /\ reader' = [reader EXCEPT ![p] =
                             ReaderAt(IF reader[p].item.tag = "Line" THEN "read" ELSE "done",
                                      NoItem)]
    /\ UNCHANGED <<processes, pids, procLock, pidLock, os, sig, nextPid, th, timed,
                   descendant, stdin, echo, stdout, wrote, pureVars>>

\* ReaderSend as it would be with try_send in the place of send: an item that
\* finds the channel full is dropped.
ReaderSend_DropsWhenFull(p) ==
    /\ reader[p].pc = "send"
    /\ IF ~HasReceiver(p)
       THEN /\ reader' = [reader EXCEPT ![p] = ReaderAt("done", NoItem)]
            /\ UNCHANGED <<chan, sent>>
       ELSE /\ IF Len(chan[p]) < CHANNEL_CAPACITY
               THEN /\ chan' = [chan EXCEPT ![p] = Append(@, reader[p].item)]
                    /\ sent' = [sent EXCEPT ![p] = Append(@, reader[p].item)]
               ELSE UNCHANGED <<chan, sent>>
            /\ reader' = [reader EXCEPT ![p] =
                             ReaderAt(IF reader[p].item.tag = "Line" THEN "read" ELSE "done",
                                      NoItem)]
    /\ UNCHANGED <<processes, pids, procLock, pidLock, os, sig, nextPid, th, timed,
                   descendant, stdin, echo, stdout, wrote, pureVars>>

\* mcp.rs:222-233: tx.send(item). It fails once the Receiver is dropped, and the
\* thread leaves its loop; it waits while the channel is full; else the item is
\* in the channel, and the thread reads on after a Line and leaves its loop after
\* Eof or Error.
ReaderSend(p) ==
    /\ reader[p].pc = "send"
    /\ IF ~HasReceiver(p)
       THEN /\ reader' = [reader EXCEPT ![p] = ReaderAt("done", NoItem)]
            /\ UNCHANGED <<chan, sent>>
       ELSE /\ Len(chan[p]) < CHANNEL_CAPACITY
            /\ chan' = [chan EXCEPT ![p] = Append(@, reader[p].item)]
            /\ sent' = [sent EXCEPT ![p] = Append(@, reader[p].item)]
            /\ reader' = [reader EXCEPT ![p] =
                             ReaderAt(IF reader[p].item.tag = "Line" THEN "read" ELSE "done",
                                      NoItem)]
    /\ UNCHANGED <<processes, pids, procLock, pidLock, os, sig, nextPid, th, timed,
                   descendant, stdin, echo, stdout, wrote, pureVars>>

\* The commands against a connected worker, its child, a descendant of it, and
\* its reader thread step by step.
InitReader == Connected /\ timed = FALSE /\ echo = FALSE /\ NoInputs

ReaderStep(p) ==
    \/ \E ok \in BOOLEAN : ReaderRead(p, ok)
    \/ ReaderReadEof(p)
    \/ ReaderSend(p)

NextReader ==
    \/ \E t \in Threads, w \in WorkerIds, r \in SampleRequests, b \in BOOLEAN :
          SendRequestTakeOut(t, w, r, b)
    \/ \E t \in Threads : ReadRecv(t)
    \/ \E t \in Threads : ReadTimeout(t)
    \/ \E t \in Threads : ReadIterationLimit(t)
    \/ \E t \in Threads : SendRequestPutBack(t)
    \/ \E t \in Threads, b \in BOOLEAN : SendRequestCleanupKill(t, b)
    \/ \E t \in Threads : SendRequestCleanupPids(t)
    \/ \E t \in Threads, w \in WorkerIds : DisconnectTakePid(t, w)
    \/ \E t \in Threads : DisconnectPollReaped(t)
    \/ \E t \in Threads, b \in BOOLEAN : DisconnectForceKill(t, b)
    \/ \E t \in Threads : DisconnectRegistry(t)
    \/ \E p \in Pids, l \in SampleLines : ChildOutput(p, l)
    \/ \E p \in Pids : ChildExit(p)
    \/ \E p \in Pids : ChildFork(p)
    \/ \E p \in Pids : DescendantExit(p)
    \/ \E p \in Pids : ReaderStep(p)

SpecReader == InitReader /\ [][NextReader]_vars

\* Fair scheduling of the caller threads and of the reader threads; the child and
\* its descendant write and end when they like, or never.
SpecReaderLive ==
    /\ InitReader /\ [][NextReader]_vars
    /\ \A t \in Threads : SF_vars(Progress(t))
    /\ \A p \in Pids : WF_vars(ReaderStep(p))

\* ------------------------------------------------- the stderr diagnostic
\* The length sanitize_stderr truncates to (500 bytes in the source), scaled.
STDERR_LIMIT == 8

\* Pieces a stderr text of the model is made of, at most.
MaxFragments == 3

\* The pieces: the two beginnings of a home directory path, "/home" without its
\* second separator, a letter, a separator, a blank, the three characters that
\* end a path token besides whitespace, and a character of two bytes.
StderrFragments ==
    { <<"/", "U", "s", "e", "r", "s">>, <<"/", "h", "o", "m", "e", "/">>,
      <<"/", "h", "o", "m", "e">>, <<"x">>, <<"/">>, <<" ">>, <<":">>, <<"'">>, <<"\"">>,
      <<"é">> }

RECURSIVE Concatenations(_)
Concatenations(n) ==
    IF n = 0 THEN { <<>> }
    ELSE LET shorter == Concatenations(n - 1) IN
         shorter \cup {s \o f : s \in shorter, f \in StderrFragments}

\* What a read of the child's stderr can have returned, decoded.
StderrTexts == Concatenations(MaxFragments)

\* The bytes of a character in UTF-8, and str::len.
Width(c) == IF c = "é" THEN 2 ELSE 1

RECURSIVE Bytes(_)
Bytes(s) == IF s = <<>> THEN 0 ELSE Width(Head(s)) + Bytes(Tail(s))

\* The longest beginning of s, in whole characters, of at most n bytes.
RECURSIVE UpToByte(_, _)
UpToByte(s, n) ==
    IF s = <<>> \/ Width(Head(s)) > n THEN <<>>
    ELSE <<Head(s)>> \o UpToByte(Tail(s), n - Width(Head(s)))

\* A diagnostic, or the panic of the thread that was to make it.
Diagnostic(text) == [state |-> "ok", text |-> text]
Panicked == [state |-> "panic", text |-> <<>>]
NoDiagnostic == [state |-> "none", text |-> <<>>]

\* The placeholder sanitize_stderr puts for a path (mcp.rs:195).
Placeholder == <<"<", "p", "a", "t", "h", ">">>

\* mcp.rs:198: the characters that end a path token.
EndsToken(c) == IsWhitespace(c) \/ c \in {":", "\"", "'"}

\* mcp.rs:197-202: the characters from the first one that ends a token on.
RECURSIVE SkipToken(_)
SkipToken(s) ==
    IF s = <<>> \/ EndsToken(Head(s)) THEN s ELSE SkipToken(Tail(s))

\* mcp.rs:193-194: the characters after a '/' begin with "Users" or "home/".
BeginsHomePath(rest) ==
    \/ StartsWith(rest, <<"U", "s", "e", "r", "s">>)
    \/ StartsWith(rest, <<"h", "o", "m", "e", "/">>)

\* mcp.rs:188-207: the loop over the characters.
RECURSIVE Scrub(_)
Scrub(s) ==
    IF s = <<>> THEN <<>>
    ELSE IF Head(s) = "/" /\ BeginsHomePath(Tail(s))
         THEN Placeholder \o Scrub(SkipToken(Tail(s)))
         ELSE <<Head(s)>> \o Scrub(Tail(s))

\* sanitize_stderr, mcp.rs:181-209. &stderr_msg[..500] panics when byte 500 is
\* not the boundary of a character.
sanitize_stderr(stderr_msg) ==
    IF Bytes(stderr_msg) > STDERR_LIMIT /\ Bytes(UpToByte(stderr_msg, STDERR_LIMIT)) # STDERR_LIMIT
    THEN Panicked
    ELSE Diagnostic(Trim(Scrub(IF Bytes(stderr_msg) > STDERR_LIMIT
                               THEN UpToByte(stderr_msg, STDERR_LIMIT)
                               ELSE stderr_msg)))

\* try_read_stderr, mcp.rs:169-177, on what the read returned: nothing, or the
\* bytes in stderrBuf.
try_read_stderr(buf) ==
    IF buf = <<>> THEN Diagnostic(<<>>) ELSE sanitize_stderr(Trim(buf))

TryReadStderr ==
    /\ diagnostic = NoDiagnostic
    /\ diagnostic' = try_read_stderr(stderrBuf)
    /\ UNCHANGED <<processes, pids, procLock, pidLock, os, sig, chan, nextPid, th, timed,
                   descendant, stdin, echo, readerVars, environ, envArg, childEnv, program,
                   ran, stderrBuf>>

\* try_read_stderr on every stderr text of the model.
InitStderr ==
    /\ InitState /\ timed = FALSE /\ echo = FALSE
    /\ environ = <<>>
    /\ envArg = <<>>
    /\ childEnv = <<>>
    /\ program = <<>>
    /\ ran = FALSE
    /\ stderrBuf \in StderrTexts
    /\ diagnostic = NoDiagnostic

NextStderr == TryReadStderr

SpecStderr == InitStderr /\ [][NextStderr]_vars

\* ------------------------------------------------------------ plugin workers
\* PluginProcessManager has the two tables of MCPProcessManager, `processes`
\* and `pids`, each behind its Mutex; the plugin id is the worker id.

\* PLUGIN_MAX_LINE (64 * 1024 bytes in the source), scaled.
PLUGIN_MAX_LINE == 3

\* plugin_manager.rs:649-667: the binary of the plugin is missing, or `processes`
\* is locked for the removal of the resident process of the id, if any, with
\* child.kill() and child.wait(); the guard drops at the end of the block.
PluginEnableKillOld(t, w, installed) ==
    /\ th[t].pc = "idle"
    /\ nextPid <= MaxSpawn
    /\ UNCHANGED <<pids, procLock, pidLock, nextPid, timed, descendant, stdin, echo, readerVars, pureVars>>
    /\ IF ~installed
       THEN /\ th' = [th EXCEPT ![t] = Return(Begin(t, "plugin_enable", w), "NotInstalled")]
            /\ UNCHANGED <<processes, chan>>
            /\ Settle(os, sig)
       ELSE /\ procLock = NoThread
            /\ th' = [th EXCEPT ![t] = [Begin(t, "plugin_enable", w) EXCEPT !.pc = "enable_spawn"]]
            /\ LET old == processes[w] IN
                 /\ processes' = [processes EXCEPT ![w] = 0]
                 /\ chan' = DropHandle(chan, old)
                 /\ Settle(IF old = 0 THEN os ELSE [os EXCEPT ![old] = "reaped"], sig)

\* plugin_manager.rs:676-705: cmd.spawn() fails, or yields a child with its pipes
\* and reader thread.
PluginEnableSpawn(t, spawned) ==
    /\ th[t].pc = "enable_spawn"
    /\ spawned => nextPid <= MaxSpawn
    /\ UNCHANGED <<processes, pids, procLock, pidLock, chan, timed, descendant, stdin, echo, readerVars, pureVars>>
    /\ IF spawned
       THEN /\ nextPid' = nextPid + 1
            /\ th' = [th EXCEPT ![t].pc = "enable_pids", ![t].held = nextPid]
            /\ Settle([os EXCEPT ![nextPid] = "running"], sig)
       ELSE /\ th' = [th EXCEPT ![t] = Return(@, "SpawnFailed")]
            /\ UNCHANGED nextPid
            /\ Settle(os, sig)

\* plugin_manager.rs:707-709: lock `pids`, insert the pid under the id, unlock.
PluginEnableStorePid(t) ==
    /\ th[t].pc = "enable_pids"
    /\ pidLock = NoThread
    /\ pids' = [pids EXCEPT ![th[t].wid] = th[t].held]
    /\ th' = [th EXCEPT ![t].pc = "enable_insert"]
    /\ UNCHANGED <<processes, procLock, pidLock, chan, nextPid, timed, descendant, stdin, echo, readerVars, pureVars>>
    /\ Settle(os, sig)

\* plugin_manager.rs:711-718: lock `processes`, insert the PluginProcess (an entry
\* already there is replaced and dropped), return Ok.
PluginEnableInsert(t) ==
    /\ th[t].pc = "enable_insert"
    /\ procLock = NoThread
    /\ processes' = [processes EXCEPT ![th[t].wid] = th[t].held]
    /\ chan' = DropHandle(chan, processes[th[t].wid])
    /\ th' = [th EXCEPT ![t] = Return(@, "Ok")]
    /\ UNCHANGED <<pids, procLock, pidLock, nextPid, timed, descendant, stdin, echo, readerVars, pureVars>>
    /\ Settle(os, sig)

\* plugin_manager.rs:726-729 and 401-406: lock `pids`, remove the id's pid; if
\* there was one, kill_plugin starts with SIGTERM to the group, the guard alive.
PluginDisableTakePid(t, w) ==
    /\ th[t].pc = "idle"
    /\ pidLock = NoThread
    /\ UNCHANGED <<processes, procLock, chan, nextPid, timed, descendant, stdin, echo, readerVars, pureVars>>
    /\ IF pids[w] = 0
       THEN /\ th' = [th EXCEPT ![t] = [Begin(t, "plugin_disable", w) EXCEPT !.pc = "disable_registry"]]
            /\ UNCHANGED <<pids, pidLock>>
            /\ Settle(os, sig)
       ELSE /\ pids' = [pids EXCEPT ![w] = 0]
            /\ pidLock' = t
            /\ th' = [th EXCEPT ![t] = [Begin(t, "plugin_disable", w) EXCEPT !.pc = "disable_poll",
                                                                            !.held = pids[w]]]
            /\ Settle(os, [sig EXCEPT ![pids[w]] = @ \cup {"TERM"}])

\* plugin_manager.rs:408-415: a poll finds the leader exited and reaps it;
\* kill_plugin returns and the `pids` guard drops.
PluginDisablePollReaped(t) ==
    /\ th[t].pc = "disable_poll"
    /\ os[th[t].held] = "zombie"
    /\ pidLock' = NoThread
    /\ th' = [th EXCEPT ![t].pc = "disable_registry"]
    /\ UNCHANGED <<processes, pids, procLock, chan, nextPid, timed, descendant, stdin, echo, readerVars, pureVars>>
    /\ Settle([os EXCEPT ![th[t].held] = "reaped"], sig)

\* plugin_manager.rs:416-425: the grace window is over: SIGKILL to the group,
\* one more waitpid WNOHANG; kill_plugin returns and the `pids` guard drops.
PluginDisableForceKill(t, reaped) ==
    /\ th[t].pc = "disable_poll"
    /\ os[th[t].held] # "zombie"
    /\ reaped \in TryWaitOutcomes(os[th[t].held])
    /\ pidLock' = NoThread
    /\ th' = [th EXCEPT ![t].pc = "disable_registry"]
    /\ descendant' = [descendant EXCEPT ![th[t].held] = FALSE]
    /\ UNCHANGED <<processes, pids, procLock, chan, nextPid, timed, stdin, echo, readerVars, pureVars>>
    /\ Settle([os EXCEPT ![th[t].held] = KillAndTryWait(@, reaped)],
              [sig EXCEPT ![th[t].held] = @ \cup {"KILL"}])

\* plugin_manager.rs:731-736: lock `processes`, remove and drop the entry if
\* there is one, return Ok.
PluginDisableRegistry(t) ==
    /\ th[t].pc = "disable_registry"
    /\ procLock = NoThread
    /\ processes' = [processes EXCEPT ![th[t].wid] = 0]
    /\ chan' = DropHandle(chan, processes[th[t].wid])
    /\ th' = [th EXCEPT ![t] = Return(@, "Ok")]
    /\ UNCHANGED <<pids, procLock, pidLock, nextPid, timed, descendant, stdin, echo, readerVars, pureVars>>
    /\ Settle(os, sig)

\* plugin_manager.rs:779-789: lock `processes`; no entry, a failed write or
\* flush: return the error, the entry where it was; else take the process out
\* of the map.
PluginInvokeTakeOut(t, w, request, written) ==
    /\ th[t].pc = "idle"
    /\ procLock = NoThread
    /\ IF processes[w] = 0
       THEN /\ th' = [th EXCEPT ![t] = Return(Begin(t, "plugin_invoke", w), "WorkerNotFound")]
            /\ UNCHANGED <<processes, stdin>>
       ELSE /\ written \in WriteOutcomes(processes[w])
            /\ IF ~written
               THEN /\ th' = [th EXCEPT ![t] =
                              Return(Begin(t, "plugin_invoke", w), "WorkerWriteFailed")]
                    /\ UNCHANGED <<processes, stdin>>
               ELSE /\ HasRoom(processes[w], request)
                    /\ stdin' = Written(processes[w], request)
                    /\ th' = [th EXCEPT ![t] =
                              [Begin(t, "plugin_invoke", w) EXCEPT
                                  !.pc = "read", !.held = processes[w], !.req = request]]
                    /\ processes' = [processes EXCEPT ![w] = 0]
    /\ UNCHANGED <<pids, procLock, pidLock, chan, nextPid, timed, descendant, echo, readerVars, pureVars>>
    /\ Settle(os, sig)

\* The result of read_plugin_response on a received item
\* (plugin_manager.rs:819-834); "none" when the loop goes on.
PluginReadOutcome(item) ==
    CASE item.tag = "Eof" -> "WorkerTerminated"
      [] item.tag = "Error" -> "ReadError"
      [] item.tag = "Line" /\ Len(item.line) > PLUGIN_MAX_LINE -> "ResponseTooLarge"
      [] item.tag = "Line" /\ StartsWithBrace(Trim(item.line)) -> "Response"
      [] OTHER -> "none"

\* read_plugin_response, plugin_manager.rs:816-834: recv_timeout delivers a
\* waiting item; the loop has no limit of iterations.
PluginReadRecv(t) ==
    /\ th[t].pc = "read"
    /\ th[t].op = "plugin_invoke"
    /\ chan[th[t].held] # <<>>
    /\ LET item == Head(chan[th[t].held])
           r == PluginReadOutcome(item) IN
         /\ chan' = [chan EXCEPT ![th[t].held] = Tail(@)]
         /\ th' = [th EXCEPT ![t] =
                      IF r = "none" THEN @
                      ELSE [@ EXCEPT !.res = r, !.pc = AfterRead(r),
                                     !.text = IF r = "Response" THEN Trim(item.line) ELSE <<>>]]
    /\ UNCHANGED <<processes, pids, procLock, pidLock, os, sig, nextPid, timed, descendant, stdin, echo, readerVars, pureVars>>

\* plugin_manager.rs:835: nothing arrived within PLUGIN_READ_TIMEOUT.
PluginReadTimeout(t) ==
    /\ th[t].pc = "read"
    /\ th[t].op = "plugin_invoke"
    /\ chan[th[t].held] = <<>>
    /\ th' = [th EXCEPT ![t].res = "ResponseTimeout", ![t].pc = AfterRead("ResponseTimeout")]
    /\ UNCHANGED <<processes, pids, procLock, pidLock, os, sig, chan, nextPid, timed, descendant, stdin, echo, readerVars, pureVars>>

\* plugin_manager.rs:801-805: on Ok, lock `processes` and insert the process
\* under the id, return the response.
PluginInvokePutBack(t) ==
    /\ th[t].pc = "putback"
    /\ th[t].op = "plugin_invoke"
    /\ procLock = NoThread
    /\ processes' = [processes EXCEPT ![th[t].wid] = th[t].held]
    /\ chan' = DropHandle(chan, processes[th[t].wid])
    /\ th' = [th EXCEPT ![t] = Return(@, @.res)]
    /\ UNCHANGED <<pids, procLock, pidLock, nextPid, timed, descendant, stdin, echo, readerVars, pureVars>>
    /\ Settle(os, sig)

\* plugin_manager.rs:806-813: on Err, child.kill(), child.try_wait(), the process
\* is dropped and the error returned; `pids` is not touched.
PluginInvokeCleanup(t, reaped) ==
    /\ th[t].pc = "cleanup"
    /\ th[t].op = "plugin_invoke"
    /\ reaped \in TryWaitOutcomes(os[th[t].held])
    /\ chan' = DropHandle(chan, th[t].held)
    /\ th' = [th EXCEPT ![t] = Return(@, @.res)]
    /\ UNCHANGED <<processes, pids, procLock, pidLock, nextPid, timed, descendant, stdin, echo, readerVars, pureVars>>
    /\ Settle([os EXCEPT ![th[t].held] = KillAndTryWait(@, reaped)], sig)

\* The plugin commands against an enabled plugin, its child and reader thread.
InitPlugin == Connected /\ timed = FALSE /\ echo = FALSE /\ NoInputs

NextPlugin ==
    \/ \E t \in Threads, w \in WorkerIds, b \in BOOLEAN : PluginEnableKillOld(t, w, b)
    \/ \E t \in Threads, b \in BOOLEAN : PluginEnableSpawn(t, b)
    \/ \E t \in Threads : PluginEnableStorePid(t)
    \/ \E t \in Threads : PluginEnableInsert(t)
    \/ \E t \in Threads, w \in WorkerIds : PluginDisableTakePid(t, w)
    \/ \E t \in Threads : PluginDisablePollReaped(t)
    \/ \E t \in Threads, b \in BOOLEAN : PluginDisableForceKill(t, b)
    \/ \E t \in Threads : PluginDisableRegistry(t)
    \/ \E t \in Threads, w \in WorkerIds, r \in SampleRequests, b \in BOOLEAN :
          PluginInvokeTakeOut(t, w, r, b)
    \/ \E t \in Threads : PluginReadRecv(t)
    \/ \E t \in Threads : PluginReadTimeout(t)
    \/ \E t \in Threads : PluginInvokePutBack(t)
    \/ \E t \in Threads, b \in BOOLEAN : PluginInvokeCleanup(t, b)
    \/ \E p \in Pids, l \in SampleLines : ChildWrite(p, Line(l))
    \/ \E p \in Pids : ChildWrite(p, Error)
    \/ \E p \in Pids : ChildExit(p)
    \/ \E p \in Pids : ReaderEof(p)

SpecPlugin == InitPlugin /\ [][NextPlugin]_vars

\* The steps by which caller thread t goes on with the plugin command it is in.
PluginProgress(t) ==
    \/ \E b \in BOOLEAN : PluginEnableSpawn(t, b)
    \/ PluginEnableStorePid(t)
    \/ PluginEnableInsert(t)
    \/ PluginDisablePollReaped(t)
    \/ \E b \in BOOLEAN : PluginDisableForceKill(t, b)
    \/ PluginDisableRegistry(t)
    \/ PluginReadRecv(t)
    \/ PluginReadTimeout(t)
    \/ PluginInvokePutBack(t)
    \/ \E b \in BOOLEAN : PluginInvokeCleanup(t, b)

\* Fair scheduling of the plugin commands: a caller thread that can go on runs.
\* The plugin writes what and as long as it likes.
SpecPluginLive == InitPlugin /\ [][NextPlugin]_vars /\ \A t \in Threads : SF_vars(PluginProgress(t))

\* ------------------------------------------------- connect against disconnect
\* mcp_connect_stdio and mcp_disconnect as the only commands, on two threads,
\* and children that exit when they like.
NextConnectDisconnect ==
    \/ \E t \in Threads, w \in WorkerIds, c \in Commands : ConnectBegin(t, w, c)
    \/ \E t \in Threads, b \in BOOLEAN : ConnectSpawn(t, b)
    \/ \E t \in Threads : ConnectStorePid(t)
    \/ \E t \in Threads : ConnectInsert(t)
    \/ \E t \in Threads, w \in WorkerIds : DisconnectTakePid(t, w)
    \/ \E t \in Threads : DisconnectPollReaped(t)
    \/ \E t \in Threads, b \in BOOLEAN : DisconnectForceKill(t, b)
    \/ \E t \in Threads : DisconnectRegistry(t)
    \/ \E p \in Pids : ChildExit(p)

SpecConnectDisconnect == Init /\ [][NextConnectDisconnect]_vars

\* plugin_enable as the only command, on two threads, no plugin running at the
\* start, and plugins that exit when they like.
NextPluginEnable ==
    \/ \E t \in Threads, w \in WorkerIds, b \in BOOLEAN : PluginEnableKillOld(t, w, b)
    \/ \E t \in Threads, b \in BOOLEAN : PluginEnableSpawn(t, b)
    \/ \E t \in Threads : PluginEnableStorePid(t)
    \/ \E t \in Threads : PluginEnableInsert(t)
    \/ \E p \in Pids : ChildExit(p)

SpecPluginEnable == Init /\ [][NextPluginEnable]_vars

\* ------------------------------------------------------------------ claims
ReadErrors ==
    {"ResponseTimeout", "WorkerTerminated", "ReadError", "ResponseTooLarge",
     "IterationLimitExceeded"}

\* t has returned from command o with result r (and has not started another).
Returned(t, o, r) == th[t].pc = "idle" /\ th[t].op = o /\ th[t].res = r

\* t's step is the return of its command.
Returns(t) == th[t].pc # "idle" /\ th'[t].pc = "idle"

\* The worker of a send_request is checked out: removed from the registry and
\* not yet put back or torn down.
CheckedOut(t) == th[t].pc \in {"read", "putback"}

\* mcp_disconnect has removed a pid from `pids` and signalled its group.
DisconnectSignalled(d) == th[d].op = "disconnect" /\ th[d].held # 0

\* C1: a disconnect(w) that runs while a send_request(w) is in its read phase
\* does not wait for it: the reading request holds neither lock, and the
\* disconnect that has taken w's pid has removed it from the PID Table and has
\* sent SIGTERM to the process group, the read still pending.
C1_DisconnectNotBlockedByRead ==
    \A r \in Threads : Reading(r) =>
        /\ procLock # r
        /\ pidLock # r
        /\ \A d \in Threads :
              (DisconnectSignalled(d) /\ th[d].held = th[r].held) =>
                  /\ pids[th[d].wid] # th[d].held
                  /\ "TERM" \in sig[th[d].held]

\* C1 witness: a disconnect has gone through its whole kill sequence for the
\* process a request is still reading from.
C1_Witness ==
    \E r, d \in Threads :
        /\ Reading(r)
        /\ DisconnectSignalled(d)
        /\ th[d].pc = "disc_registry"
        /\ th[d].held = th[r].held
        /\ pids[th[d].wid] = 0

\* C2 (as claimed): while a worker of w is checked out, the registry has no entry
\* for w, so a concurrent send_request or send_notification gets WorkerNotFound
\* and a concurrent disconnect has no registry entry to remove.
C2_CheckedOutIsNotFound ==
    \A r \in Threads : CheckedOut(r) => processes[th[r].wid] = 0

C4_SuccessPutsBack ==
    [][\A t \in Threads :
          (Returns(t) /\ th[t].op = "send_request" /\ th[t].res = "Response") =>
              /\ processes'[th[t].wid] = th[t].held
              /\ chan'[th[t].held] = chan[th[t].held]
              /\ os'[th[t].held] = os[th[t].held]
              /\ pids' = pids]_vars

\* C4 witness: a send_request has returned a response and w is registered.
C4_Witness ==
    \E t \in Threads :
        /\ Returned(t, "send_request", "Response")
        /\ processes[th[t].wid] # 0
        /\ pids[th[t].wid] = processes[th[t].wid]

\* C5 (as claimed): whenever a worker is visible in the registry, every process
\* spawned before it (all serve the one id) has been terminated.
C5_OldTerminatedBeforeVisible ==
    \A w \in WorkerIds : \A p \in Pids :
        (processes[w] # 0 /\ p < processes[w]) => os[p] # "running"

\* C6 (as claimed): at most one send_request is in its read phase for an id.
C6_OneReadPhasePerId ==
    \A w \in WorkerIds :
        Cardinality({t \in Threads : Reading(t) /\ th[t].wid = w}) <= 1

\* No command is in flight.
Quiescent == \A t \in Threads : th[t].pc = "idle"

\* C7 (as claimed): with no command in flight, a PID Table entry for w stands
\* for a worker that exists: the registry holds the worker of that pid.
C7_PidEntryHasWorker ==
    \A w \in WorkerIds :
        (Quiescent /\ pids[w] # 0) => processes[w] = pids[w]

\* C8 (as claimed): a send_request that returns WorkerWriteFailed leaves no
\* registry entry for w.
C8_WriteFailureRemovesEntry ==
    [][\A t \in Threads :
          (th'[t] # th[t] /\ Returned(t, "send_request", "WorkerWriteFailed")') =>
              processes'[th'[t].wid] = 0]_vars

\* C9: a read phase that ends without having received anything ends with
\* ResponseTimeout, READ_LINE_TIMEOUT after it started; and once the request has
\* returned ResponseTimeout, w is not in the registry (the active ids) nor in
\* the PID Table.
C9_SilentChildTimesOut ==
    /\ [][\A t \in Threads :
             (Reading(t) /\ th[t].iter = 0 /\ chan[th[t].held] = <<>> /\ ~Reading(t)') =>
                 /\ th'[t].res = "ResponseTimeout"
                 /\ th'[t].pc = "cleanup"
                 /\ th[t].elapsed = READ_LINE_TIMEOUT]_vars
    /\ [](\A t \in Threads :
             Returned(t, "send_request", "ResponseTimeout") =>
                 /\ processes[th[t].wid] = 0
                 /\ pids[th[t].wid] = 0)

\* C9 witness: a send_request has returned ResponseTimeout.
C9_Witness ==
    \E t \in Threads :
        /\ Returned(t, "send_request", "ResponseTimeout")
        /\ processes[th[t].wid] = 0

\* C10 (as claimed): the read phase lasts at most read_timeout plus one idle
\* slice (one tick).
C10_ReadPhaseBounded ==
    \A t \in Threads : Reading(t) => th[t].elapsed <= READ_LINE_TIMEOUT + 1

\* C11 (as claimed): when mcp_disconnect returns after having taken a pid from
\* the PID Table, no member of that pid's process group is alive: neither the
\* child nor a descendant in its group.
C11_GroupTerminatedOnReturn ==
    [][\A t \in Threads :
          (Returns(t) /\ th[t].op = "disconnect" /\ th[t].held # 0) =>
              /\ os[th[t].held] # "running"
              /\ ~descendant[th[t].held]]_vars

\* The next step of t's command takes the PID Table lock.
WaitsForPidLock(t) == th[t].pc \in {"conn_pids", "cleanup_pids"}

\* The next step of t's command takes the registry lock.
WaitsForProcLock(t) == th[t].pc \in {"putback", "disc_registry"}

\* C12: under fair scheduling every call of mcp_connect_stdio, mcp_send_request,
\* mcp_send_notification and mcp_disconnect returns, whatever the other callers
\* do; and no two callers each hold one of the two locks and wait for the other.
C12_EveryCallReturns ==
    /\ \A t \in Threads : (th[t].pc # "idle") ~> (th[t].pc = "idle")
    /\ [](\A t, u \in Threads :
             ~(/\ procLock = t /\ WaitsForPidLock(t)
               /\ pidLock = u /\ WaitsForProcLock(u)))

\* C12 witness: one caller holds the registry lock and waits for the PID Table
\* lock while the other holds the PID Table lock.
C12_Witness ==
    \E t, u \in Threads :
        /\ procLock = t
        /\ th[t].pc = "conn_pids"
        /\ pidLock = u
        /\ th[u].pc = "disc_poll"

\* C13 (as claimed): whoever holds the registry lock is not waiting for a child
\* to exit, nor in a channel receive, nor waiting for the PID Table lock while
\* another caller holds it.
C13_RegistryLockHeldBriefly ==
    \A t \in Threads : procLock = t =>
        /\ ~Reading(t)
        /\ ~(WaitsForPidLock(t) /\ pidLock # NoThread)

\* C14 (as claimed): mcp_disconnect does not hold the PID Table lock while it
\* polls for the exit of the process it has signalled.
C14_PidLockReleasedBeforeKill ==
    \A t \in Threads : th[t].pc = "disc_poll" => pidLock # t

\* C15 (as claimed): the return of a successful mcp_connect_stdio, no other
\* command being in flight at that moment, leaves w in the registry with the new
\* child's handle, w mapped to the new child's pid in the PID Table, and that
\* pid denoting a process that has not been reaped.
C15_ConnectedIsRegistered ==
    [][\A t \in Threads :
          (/\ Returns(t) /\ th[t].op = "connect" /\ th'[t].res = "Ok"
           /\ \A u \in Threads \ {t} : th[u].pc = "idle") =>
              /\ processes'[th[t].wid] = th[t].held
              /\ pids'[th[t].wid] = th[t].held
              /\ os'[th[t].held] \in {"running", "zombie"}]_vars

\* The first character of line that is not whitespace is '{'.
BeginsWithBrace(line) ==
    \E i \in 1..Len(line) :
        /\ line[i] = "{"
        /\ \A k \in 1..(i - 1) : IsWhitespace(line[k])

\* text is line without the whitespace at its two ends.
IsTrimmed(line, text) ==
    /\ text # <<>>
    /\ ~IsWhitespace(text[1])
    /\ ~IsWhitespace(text[Len(text)])
    /\ \E i \in 1..Len(line) :
          /\ text = SubSeq(line, i, i + Len(text) - 1)
          /\ \A k \in 1..Len(line) :
                (k < i \/ k > i + Len(text) - 1) => IsWhitespace(line[k])

\* Thread t, in its read phase, receives the item at the head of its channel.
Receives(t) ==
    /\ Reading(t)
    /\ chan[th[t].held] # <<>>
    /\ chan'[th[t].held] = Tail(chan[th[t].held])
    /\ th'[t] # th[t]

\* C16: a received line within the size limit whose first non-whitespace
\* character is '{' ends the read with that line, trimmed, as the response, and
\* the call returns it; any other line within the size limit is skipped without
\* an error and the read goes on.
C16_FirstJsonLineIsResponse ==
    [][\A t \in Threads :
          /\ (Receives(t) /\ Head(chan[th[t].held]).tag = "Line"
                /\ Len(Head(chan[th[t].held]).line) <= MAX_LINE_LENGTH) =>
               IF BeginsWithBrace(Head(chan[th[t].held]).line)
               THEN /\ th'[t].res = "Response"
                    /\ th'[t].pc = "putback"
                    /\ IsTrimmed(Head(chan[th[t].held]).line, th'[t].text)
               ELSE /\ Reading(t)'
                    /\ th'[t].res = "none"
                    /\ th'[t].iter = th[t].iter + 1
                    /\ th'[t].held = th[t].held
          /\ (Returns(t) /\ th[t].op = "send_request" /\ th[t].res = "Response") =>
               th'[t].res = "Response"]_vars

\* C16 witness: a send_request that has skipped a line is handed a line with
\* '{' between whitespace.
C16_Witness ==
    \E t \in Threads :
        /\ Reading(t)
        /\ th[t].iter = 1
        /\ chan[th[t].held] = <<Line(<<" ", "{", Newline>>)>>

\* C18: a received line longer than MAX_LINE_LENGTH ends the read with
\* ResponseTooLarge whatever its text, a line of at most MAX_LINE_LENGTH never
\* does, and the call returns the error.
C18_OversizeLineRejected ==
    [][\A t \in Threads :
          /\ (Receives(t) /\ Head(chan[th[t].held]).tag = "Line") =>
               IF Len(Head(chan[th[t].held]).line) > MAX_LINE_LENGTH
               THEN th'[t].res = "ResponseTooLarge" /\ th'[t].pc = "cleanup"
               ELSE th'[t].res # "ResponseTooLarge"
          /\ (Returns(t) /\ th[t].res = "ResponseTooLarge") =>
               th'[t].res = "ResponseTooLarge"]_vars

\* C18 witness: a send_request has returned ResponseTooLarge.
C18_Witness ==
    \E t \in Threads : Returned(t, "send_request", "ResponseTooLarge")

\* C19: the read loop never has skipped more than MAX_READ_ITERATIONS lines, and
\* once it has skipped that many its next step is to fail with
\* IterationLimitExceeded, taking nothing more from the channel.
C19_SkipLoopTerminates ==
    /\ [](\A t \in Threads : Reading(t) => th[t].iter <= MAX_READ_ITERATIONS)
    /\ [][\A t \in Threads :
             (Reading(t) /\ th[t].iter = MAX_READ_ITERATIONS /\ th'[t] # th[t]) =>
                 /\ th'[t].res = "IterationLimitExceeded"
                 /\ th'[t].pc = "cleanup"
                 /\ chan'[th[t].held] = chan[th[t].held]]_vars

\* C19 witness: a send_request has returned IterationLimitExceeded.
C19_Witness ==
    \E t \in Threads : Returned(t, "send_request", "IterationLimitExceeded")

\* Thread t's step is the first of a mcp_disconnect.
DisconnectStarts(t) ==
    th[t].pc = "idle" /\ th'[t].pc # "idle" /\ th'[t].op = "disconnect"

\* C20: mcp_disconnect returns Ok whatever it found. Its first step leaves w out
\* of the PID Table and its return leaves w out of the registry; a step of it
\* that finds no entry for w in the table it looks at changes neither table,
\* sends no signal and ends no process.
C20_DisconnectNeverFails ==
    [][\A t \in Threads :
          /\ DisconnectStarts(t) =>
               /\ pids'[th'[t].wid] = 0
               /\ pids[th'[t].wid] = 0 =>
                    (pids' = pids /\ processes' = processes /\ sig' = sig /\ os' = os)
          /\ (Returns(t) /\ th[t].op = "disconnect") =>
               /\ th'[t].res = "Ok"
               /\ processes'[th[t].wid] = 0
               /\ (th[t].held = 0 /\ processes[th[t].wid] = 0) =>
                    (pids' = pids /\ processes' = processes /\ sig' = sig /\ os' = os)]_vars

\* C20 witness: two calls of mcp_disconnect have returned, one after the other
\* or together, and w is in neither table.
C20_Witness ==
    /\ \A t \in Threads : Returned(t, "disconnect", "Ok")
    /\ \A w \in WorkerIds : processes[w] = 0 /\ pids[w] = 0

\* A request text as the claim takes it: it begins with '{' and has no
\* whitespace at either end.
IsJsonRequest(r) ==
    /\ r # <<>>
    /\ r[1] = "{"
    /\ ~IsWhitespace(r[Len(r)])

\* The results by which the read phase ends on what the child wrote, not on its
\* silence or its end.
Answers == {"Response", "ResponseTooLarge", "IterationLimitExceeded"}

\* C17 (as claimed): a send_request of such a text that an echo stub answered
\* returns that text.
C17_EchoReturnsRequest ==
    [][\A t \in Threads :
          (/\ Returns(t) /\ th[t].op = "send_request" /\ th[t].res \in Answers
           /\ IsJsonRequest(th[t].req)) =>
              th'[t].res = "Response" /\ th[t].text = th[t].req]_vars

\* The request is one line that fits the line limit with its terminator.
IsOneShortLine(r) ==
    /\ \A i \in 1..Len(r) : r[i] # Newline
    /\ Len(r) + 1 <= MAX_LINE_LENGTH

\* C17 (amended): a send_request of such a text that is one line, no longer with
\* its terminator than MAX_LINE_LENGTH, sent when nothing written to the stub
\* earlier was still on its way back, returns that text if the stub answered it.
C17_EchoReturnsOneLineRequest ==
    [][\A t \in Threads :
          (/\ Returns(t) /\ th[t].op = "send_request" /\ th[t].res \in Answers
           /\ IsJsonRequest(th[t].req) /\ IsOneShortLine(th[t].req)
           /\ th[t].fresh) =>
              th'[t].res = "Response" /\ th[t].text = th[t].req]_vars

\* C17 witness: a send_request of "{x" got its text back from the stub.
C17_Witness ==
    \E t \in Threads :
        /\ th[t].pc = "putback"
        /\ th[t].fresh
        /\ th[t].req = <<"{", "x">>
        /\ th[t].text = <<"{", "x">>

\* Thread t's step is a whole call of mcp_send_notification.
Notifies(t) ==
    /\ th[t].pc = "idle"
    /\ th'[t].pc = "idle"
    /\ th'[t].op = "send_notification"
    /\ th'[t] # th[t]

\* C21: a call of mcp_send_notification, whatever its result, leaves the registry
\* and the PID Table as they were, takes nothing from a line channel and never
\* is in a read phase.
C21_NotificationLeavesTables ==
    /\ [][\A t \in Threads : Notifies(t) =>
              /\ processes' = processes
              /\ pids' = pids
              /\ chan' = chan
              /\ th'[t].res \in {"Ok", "WorkerNotFound", "WorkerWriteFailed"}]_vars
    /\ [](\A t \in Threads : th[t].op = "send_notification" => th[t].pc = "idle")

\* C21 witness: a notification has failed on its write, another has been
\* written, and w still is in both tables.
C21_Witness ==
    \E t, u \in Threads, w \in WorkerIds :
        /\ Returned(t, "send_notification", "WorkerWriteFailed")
        /\ Returned(u, "send_notification", "Ok")
        /\ processes[w] # 0
        /\ pids[w] = processes[w]

\* The name starts with one of the blocked prefixes.
IsBlockedName(key) == \E prefix \in BLOCKED_ENV_PREFIXES : StartsWith(key, prefix)

\* C22 (as claimed): no variable whose name starts with a blocked prefix is in
\* the environment of the child.
C22_NoBlockedVariableInChild ==
    \A key \in DOMAIN childEnv : ~IsBlockedName(key)

\* C22 (amended): the step that builds the child's environment from the parent
\* environment and the env argument leaves in it one variable of a blocked name,
\* npm_config_userconfig with the value /dev/null, and every variable of another
\* name that the argument or the parent has, with the argument's value if it has
\* one and the parent's otherwise.
C22_OnlyOwnBlockedVariableInChild ==
    [][BuildEnvironment =>
          /\ \A key \in DOMAIN childEnv' :
                IsBlockedName(key) => (key = NpmUserconfig /\ childEnv'[key] = DevNull)
          /\ NpmUserconfig \in DOMAIN childEnv'
          /\ \A key \in DOMAIN childEnv' :
                ~IsBlockedName(key) => key \in DOMAIN environ \cup DOMAIN envArg
          /\ \A key \in DOMAIN envArg :
                ~IsBlockedName(key) => (key \in DOMAIN childEnv' /\ childEnv'[key] = envArg[key])
          /\ \A key \in DOMAIN environ \ DOMAIN envArg :
                ~IsBlockedName(key) => (key \in DOMAIN childEnv' /\ childEnv'[key] = environ[key])]_vars

\* C22 witness: the parent has PATH and NPM_TOKEN, the argument had PATH and
\* LD_PRELOAD, and the child gets the argument's PATH and npm_config_userconfig.
C22_Witness ==
    /\ DOMAIN environ = {<<"P", "A", "T", "H">>, <<"N", "P", "M", "_", "T", "O", "K", "E", "N">>}
    /\ DOMAIN envArg = {<<"P", "A", "T", "H">>, <<"L", "D", "_", "P", "R", "E", "L", "O", "A", "D">>}
    /\ DOMAIN childEnv = {<<"P", "A", "T", "H">>, NpmUserconfig}
    /\ childEnv[<<"P", "A", "T", "H">>] = "given"

\* A simple token: not empty, letters, digits, '-', '_' and '.' only.
IsSimpleToken(c) ==
    c # <<>> /\ \A i \in 1..Len(c) : c[i] \in {"a", "-", "_", "."}

\* Thread t's step is the first (or the only) one of the command o.
Starts(t, o) ==
    th[t].pc = "idle" /\ th'[t] # th[t] /\ th'[t].op = o

\* C23: mcp_connect_stdio and check_command_exists go past the validation of the
\* command exactly when it is a simple token, and fail with InvalidCommand
\* otherwise, in particular when it has a path separator, whitespace or a shell
\* metacharacter in it; and while the command is not a simple token no process
\* has been spawned by either.
C23_OnlySimpleTokensRun ==
    /\ [][\A t \in Threads :
             (Starts(t, "connect") \/ Starts(t, "check_command_exists")) =>
                 /\ (th'[t].res = "InvalidCommand") <=> ~IsSimpleToken(program)
                 /\ (\E i \in 1..Len(program) : program[i] \in {"/", " ", ";"}) =>
                        th'[t].res = "InvalidCommand"]_vars
    /\ [](~IsSimpleToken(program) =>
             /\ ~ran
             /\ nextPid = 1
             /\ \A p \in Pids : os[p] = "unborn")

\* C23 witness: a command with a path separator has been refused by
\* mcp_connect_stdio and by check_command_exists.
C23_Witness ==
    \E t, u \in Threads :
        /\ program = <<"a", "/">>
        /\ Returned(t, "connect", "InvalidCommand")
        /\ Returned(u, "check_command_exists", "InvalidCommand")

\* Thread t's step sends SIGKILL to the process group of the pid it has taken.
ForceKills(t) ==
    /\ th[t].pc = "disc_poll"
    /\ "KILL" \notin sig[th[t].held]
    /\ "KILL" \in sig'[th[t].held]

\* Thread t is in the termination sequence of mcp_disconnect.
Terminating(t) == th[t].pc \in {"disc_poll", "disc_sleep"}

\* C24: a process group gets SIGKILL only after SIGTERM; mcp_disconnect sends
\* SIGKILL only at a poll that does not find the leader exited and that comes
\* GRACE_WINDOW or more after SIGTERM; and its termination sequence never is
\* more than GRACE_WINDOW + POLL_INTERVAL after SIGTERM, where it ends at once.
C24_TerminateThenKillInTime ==
    /\ [](\A p \in Pids : "KILL" \in sig[p] => "TERM" \in sig[p])
    /\ [][\A t \in Threads : ForceKills(t) =>
             /\ "TERM" \in sig[th[t].held]
             /\ os[th[t].held] # "zombie"
             /\ th[t].elapsed >= GRACE_WINDOW
             /\ ~Terminating(t)']_vars
    /\ [](\A t \in Threads : Terminating(t) =>
             /\ "TERM" \in sig[th[t].held]
             /\ th[t].elapsed <= GRACE_WINDOW + POLL_INTERVAL
             /\ Sleeping(t) => th[t].elapsed - th[t].waited < GRACE_WINDOW)

\* C24 witness: a disconnect is at a poll later than the grace window and the
\* leader still runs.
C24_Witness ==
    \E t \in Threads :
        /\ th[t].pc = "disc_poll"
        /\ th[t].elapsed > GRACE_WINDOW
        /\ os[th[t].held] = "running"

\* C25 (as claimed): when mcp_disconnect returns after having signalled the
\* process group of a pid it took from the PID Table, the child of that pid has
\* been reaped.
C25_ChildReapedOnReturn ==
    [][\A t \in Threads :
          (Returns(t) /\ th[t].op = "disconnect" /\ th[t].held # 0) =>
              os[th[t].held] = "reaped"]_vars

\* The lines of the Line items of a sequence of items that has no other items
\* but at its end.
LinesOf(items) ==
    [i \in 1..Cardinality({k \in 1..Len(items) : items[k].tag = "Line"}) |-> items[i].line]

IsTerminal(item) == item.tag \in {"Eof", "Error"}

\* C26: what the reader thread has sent is the lines the child has written, from
\* the first on, in the order written and without a gap, as Line items, and then
\* at most one of Eof and Error, as the last item; as long as it has sent neither
\* the lines it has not sent yet are in the pipe or in its hand; it sends Eof only
\* after every line; it ends only after Eof or Error or with its receiver
\* dropped; a send that fails ends it without a further read; and once ended it
\* reads and sends nothing.
C26_ReaderForwardsInOrder ==
    /\ [](\A p \in Pids :
            /\ \A i \in 1..Len(sent[p]) : IsTerminal(sent[p][i]) => i = Len(sent[p])
            /\ \A i \in 1..Len(LinesOf(sent[p])) :
                  i <= Len(wrote[p]) /\ sent[p][i] = Line(wrote[p][i])
            /\ reader[p].pc = "read" => wrote[p] = LinesOf(sent[p]) \o stdout[p]
            /\ (reader[p].pc = "send" /\ reader[p].item.tag = "Line") =>
                  wrote[p] = LinesOf(sent[p]) \o <<reader[p].item.line>> \o stdout[p]
            /\ (reader[p].pc = "send" /\ reader[p].item.tag = "Eof") =>
                  wrote[p] = LinesOf(sent[p])
            /\ reader[p].pc = "done" =>
                  \/ sent[p] # <<>> /\ IsTerminal(sent[p][Len(sent[p])])
                  \/ ~HasReceiver(p))
    /\ [][\A p \in Pids :
            /\ (reader[p].pc = "send" /\ ~HasReceiver(p) /\ reader'[p] # reader[p]) =>
                  /\ reader'[p].pc = "done"
                  /\ sent'[p] = sent[p]
                  /\ chan'[p] = chan[p]
            /\ reader[p].pc = "done" =>
                  /\ reader'[p] = reader[p]
                  /\ sent'[p] = sent[p]
                  /\ Len(stdout'[p]) >= Len(stdout[p])]_vars

\* C26 witness: the reader thread has sent two different lines and Eof, and has
\* ended.
C26_Witness ==
    \E p \in Pids :
        /\ reader[p].pc = "done"
        /\ Len(sent[p]) = 3
        /\ sent[p][1] # sent[p][2]
        /\ sent[p][3] = Eof

\* The child of pid p has ended and the Worker of p has been dropped.
TornDown(p) == os[p] \in {"zombie", "reaped", "gone"} /\ ~HasReceiver(p)

\* C27 (as claimed): once a child has ended and its Worker has been dropped, its
\* reader thread eventually ends.
C27_ReaderEndsAfterTeardown ==
    \A p \in Pids : TornDown(p) ~> (reader[p].pc = "done")

\* C28 (as claimed): a read phase that receives Eof or Error ends with
\* WorkerTerminated and a diagnostic that is the stderr snapshot or, when that
\* gave nothing, empty.
C28_TerminatedWithStderrDiagnostic ==
    [][\A t \in Threads :
          (Receives(t) /\ IsTerminal(Head(chan[th[t].held]))) =>
              /\ th'[t].res = "WorkerTerminated"
              /\ th'[t].diag \in {"stderr", "empty"}]_vars

\* No '/' of the text is followed by "Users" or by "home/".
NoHomePath(text) ==
    \A i \in 1..Len(text) :
        text[i] = "/" => ~BeginsHomePath(SubSeq(text, i + 1, Len(text)))

\* The text without the placeholders in it.
RECURSIVE WithoutPlaceholders(_)
WithoutPlaceholders(text) ==
    IF text = <<>> THEN <<>>
    ELSE IF StartsWith(text, Placeholder)
         THEN WithoutPlaceholders(SubSeq(text, Len(Placeholder) + 1, Len(text)))
         ELSE <<Head(text)>> \o WithoutPlaceholders(Tail(text))

\* Every character of part is in whole, in the same order.
RECURSIVE IsSubsequence(_, _)
IsSubsequence(part, whole) ==
    IF part = <<>> THEN TRUE
    ELSE IF whole = <<>> THEN FALSE
    ELSE IF Head(part) = Head(whole) THEN IsSubsequence(Tail(part), Tail(whole))
    ELSE IsSubsequence(part, Tail(whole))

\* C29 (as claimed): try_read_stderr gives a diagnostic for whatever the read
\* returned; it is at most STDERR_LIMIT bytes long, no '/' in it begins a home
\* directory path, and what it has besides placeholders are characters of the
\* stderr text, in their order.
C29_DiagnosticShortAndScrubbed ==
    diagnostic # NoDiagnostic =>
        /\ diagnostic.state = "ok"
        /\ Bytes(diagnostic.text) <= STDERR_LIMIT
        /\ NoHomePath(diagnostic.text)
        /\ IsSubsequence(WithoutPlaceholders(diagnostic.text), stderrBuf)

\* t's step is the return of a plugin_invoke whose read phase has failed.
FailedInvokeReturns(t) ==
    th[t].op = "plugin_invoke" /\ th[t].pc = "cleanup" /\ th'[t].pc = "idle"

\* C30: when a plugin_invoke whose read phase failed returns, the plugin's
\* process runs no more, neither table has an entry for it, and so no later
\* plugin_disable takes the pid of that process out of the PID Table.
C30_FailedInvokeLeavesNoPid ==
    [][\A t \in Threads : FailedInvokeReturns(t) =>
          /\ os'[th[t].held] # "running"
          /\ \A w \in WorkerIds : processes'[w] # th[t].held /\ pids'[w] # th[t].held]_vars

\* C31: under fair scheduling the read loop of a plugin_invoke ends, whatever
\* the plugin writes: a plugin that goes on writing blank or non-JSON lines,
\* each within the timeout, does not keep the call in its read phase for ever.
C31_PluginSkipLoopTerminates ==
    \A t \in Threads :
        (th[t].op = "plugin_invoke" /\ th[t].pc = "read") ~> (th[t].pc # "read")

\* C32: where no connect runs, once a disconnect(w) has returned and no command
\* is in flight any more, the registry has no entry for w: a send_request that
\* was in flight during the disconnect has not put its worker back.
C32_DisconnectedStaysOut ==
    \A d \in Threads :
        (Quiescent /\ Returned(d, "disconnect", "Ok")) => processes[th[d].wid] = 0

\* Process p is tracked: it is the resident registry entry of an id, or a
\* command in flight holds it (a send_request that has checked it out, the
\* connect that has spawned it and is about to insert it).
Tracked(p) ==
    \/ \E w \in WorkerIds : processes[w] = p
    \/ \E t \in Threads : th[t].pc # "idle" /\ th[t].held = p

\* C33: every process that runs and whose group has been sent no signal is
\* tracked.
C33_NoLiveChildUntracked ==
    \A p \in Pids : (os[p] = "running" /\ sig[p] = {}) => Tracked(p)

\* C34: with no command in flight, a worker resident in the registry under w
\* has its pid in the PID Table under w.
C34_ResidentHasItsPid ==
    \A w \in WorkerIds :
        (Quiescent /\ processes[w] # 0) => pids[w] = processes[w]

\* The step sends a signal to the process group of p (graceful_kill_process_group).
SignalsGroup(p) == sig'[p] \ sig[p] # {}

\* t's step is the child.kill() of a failed send_request.
KillsChild(t) == th[t].pc = "cleanup" /\ th'[t].pc = "cleanup_pids"

\* t's step is the start of a connect that replaces the resident worker of its id.
ReplacesChild(t) ==
    th[t].pc = "idle" /\ th'[t].pc = "conn_spawn" /\ processes[th'[t].wid] # 0

\* C35: no step signals a process that a wait of the supervisor has reaped:
\* not the group signals of disconnect, not the kill of a failed send_request,
\* not the kill of the worker a connect replaces.
C35_NoSignalAfterReap ==
    [][/\ \A p \in Pids : SignalsGroup(p) => os[p] # "reaped"
       /\ \A t \in Threads : KillsChild(t) => os[th[t].held] # "reaped"
       /\ \A t \in Threads : ReplacesChild(t) => os[processes[th'[t].wid]] # "reaped"]_vars

\* C36: where connect(w) and disconnect(w) are the only commands, once a connect
\* and a disconnect have both returned Ok w is fully connected (resident, its pid in the PID Table, its
\* process not reaped) or fully gone (in neither table), and no process runs
\* that is not the resident worker.
C36_ConnectedOrGone ==
    (\E c, d \in Threads : Returned(c, "connect", "Ok") /\ Returned(d, "disconnect", "Ok")) =>
        /\ \A w \in WorkerIds :
              \/ processes[w] = 0 /\ pids[w] = 0
              \/ /\ processes[w] # 0
                 /\ pids[w] = processes[w]
                 /\ os[processes[w]] \in {"running", "zombie"}
        /\ \A p \in Pids : os[p] = "running" => \E w \in WorkerIds : processes[w] = p

\* t's step receives the line that its send_request returns as the response.
ReceivesResponse(t) ==
    th[t].op = "send_request" /\ th[t].pc = "read" /\ th'[t].pc = "putback"

\* C37: the line a send_request returns is not one of those that waited in the
\* channel when its request was written: the call has taken all of these from
\* the channel, and skipped them, before it receives its response.
C37_ResponseWrittenAfterRequest ==
    [][\A t \in Threads : ReceivesResponse(t) => th[t].pending = 0]_vars

\* t's step is a connect that returns at once because its command is rejected.
RejectsCommand(t) ==
    /\ th[t].pc = "idle" /\ th'[t].pc = "idle" /\ th'[t] # th[t]
    /\ th'[t].op = "connect" /\ th'[t].res = "InvalidCommand"

\* C38: a connect whose command the validator rejects returns having changed
\* neither table, taken no lock, and ended or signalled no process.
C38_RejectedCommandTouchesNothing ==
    [][\A t \in Threads : RejectsCommand(t) =>
          UNCHANGED <<processes, pids, procLock, pidLock, os, sig, chan, nextPid, stdin>>]_vars

\* C38 witness: a connect has been rejected and the worker that was resident
\* before still is, its process running and its pid in the PID Table.
C38_Witness ==
    \E t \in Threads, w \in WorkerIds :
        /\ Returned(t, "connect", "InvalidCommand")
        /\ th[t].wid = w
        /\ processes[w] # 0
        /\ pids[w] = processes[w]
        /\ os[processes[w]] = "running"

\* C39: once two plugin_enable calls for the id have both returned Ok, at most
\* one process runs, and a process that runs is the one in the registry and in
\* the PID Table.
C39_OnePluginProcessAfterEnables ==
    (\A t \in Threads : Returned(t, "plugin_enable", "Ok")) =>
        /\ Cardinality({p \in Pids : os[p] = "running"}) <= 1
        /\ \A p \in Pids : os[p] = "running" =>
              \A w \in WorkerIds : processes[w] = p /\ pids[w] = p

\* part is the end of whole.
IsSuffix(part, whole) ==
    /\ Len(part) <= Len(whole)
    /\ part = SubSeq(whole, Len(whole) - Len(part) + 1, Len(whole))

\* The reader thread of p has an item in its hand that the full channel of a
\* live receiver does not take.
BlockedOnFullChannel(p) ==
    reader[p].pc = "send" /\ HasReceiver(p) /\ Len(chan[p]) = CHANNEL_CAPACITY

=============================================================================
